---- MODULE Spec2Model ----
(***************************************************************************)
(* The streaming transport of createMcpH3App: the per-client registry      *)
(* clientTransports, the /sse handler that opens a session, the /messages  *)
(* handler that routes a POST to a session's SSEServerTransport, and the   *)
(* one McpServer every transport is connected to.                          *)
(*                                                                         *)
(* The two copies of createMcpH3App (src/src/server.ts and                 *)
(* src/unnamed/part_017) differ only in a debug line and in a readBody     *)
(* call ahead of handlePostMessage; the model covers both: a body that     *)
(* handlePostMessage can not read or parse is the input Malformed.         *)
(*                                                                         *)
(* McpServer and SSEServerTransport come from @modelcontextprotocol/sdk    *)
(* (^1.11.1).  Their behaviour at the call sites is written out here: a    *)
(* server keeps ONE field _transport, connect() assigns it, a transport's  *)
(* onclose clears it, and a response is sent through the _transport that   *)
(* is set when the handler resolves.                                       *)
(*                                                                         *)
(* PluginSpec is the set-up that precedes serving: ViteMcp.configureServer *)
(* (create the server, run mcpServerSetup, install the routes), the Nuxt   *)
(* module's mcpServerSetup (user set-up, built-in registrations, the       *)
(* 'mcp:setup' hook), and the dispatch of a tools/call to a handler.       *)
(***************************************************************************)
EXTENDS Integers, Sequences, FiniteSets, TLC

\* ---------------------------------------------------------------- bounds
MaxSessions == 2
MaxPosts == 2

SessionIds == 1..MaxSessions
RequestIds == 1..MaxPosts

\* "no value": an absent header or query parameter, an undefined transport
None == 0
\* a sessionId query parameter given more than once (getQuery yields an array)
Multi == -1

HttpMethods == {"POST", "GET"}
RpcMethods == {"add", "unknown"}
Malformed == [kind |-> "malformed", id |-> 0, method |-> "none", valid |-> FALSE]
Requests == [kind : {"request"}, id : RequestIds, method : RpcMethods, valid : BOOLEAN]
Bodies == {Malformed} \cup Requests

VARIABLES
  running,           \* the process has not exited
  nextId,            \* the next sessionId randomUUID() hands out
  clientTransports,  \* Map<string, SSEServerTransport>: key -> transport
  resOpen,           \* resOpen[s]: the /sse response of s is open
  sseResponse,       \* sseResponse[s]: transport s has _sseResponse set
  mcpTransport,      \* the server's _transport field
  pending,           \* requests whose handler has not resolved yet
  posted,            \* posted[s]: the number of requests accepted for session s
  stream             \* stream[s]: the events written on the /sse response of s

vars == <<running, nextId, clientTransports, resOpen, sseResponse,
          mcpTransport, pending, posted, stream>>

\* ---------------------------------------------------------------- events
Handshake(s) == [type |-> "endpoint", id |-> s, origin |-> s, outcome |-> "none"]
Response(id, origin, outcome) ==
  [type |-> "response", id |-> id, origin |-> origin, outcome |-> outcome]

\* SSEServerTransport.send: throws "Not connected" without _sseResponse; the
\* server calls it as this._transport?.send(...).catch(...), so nothing is
\* written when there is no transport or the transport is not connected.
Send(t, ev) ==
  IF t # None /\ sseResponse[t]
  THEN [stream EXCEPT ![t] = Append(@, ev)]
  ELSE stream

HttpReply(status, message, transport) ==
  [status |-> status, message |-> message, transport |-> transport]

\* the number of requests accepted so far, over the sessions 1..n
RECURSIVE TotalPosted(_)
TotalPosted(n) == IF n = 0 THEN 0 ELSE posted[n] + TotalPosted(n - 1)

\* ================================================================ set-up
\* The second part of the model: how a server gets its handlers and its
\* routes (the stand-alone server of src/src/server.ts, ViteMcp's
\* configureServer, and the Nuxt module that wraps mcpServerSetup), and how
\* McpServer dispatches a tools/call to a registered handler.
MaxCalls == 2

\* the McpServer instances: the one created by default, and the one a user's
\* mcpServerSetup may construct and return
Default == 1
Replacement == 2
Servers == {Default, Replacement}

Deployments == {"standalone", "vite", "nuxt"}
Registrants == {"builtin", "user", "hook"}
ToolNames == {"add", "get-vite-config", "nuxt-scaffold", "get-nuxt-root"}
NoTool == "none"

\* JavaScript values that arrive as tool arguments
Undefined == [type |-> "undefined", num |-> 0, str |-> ""]
Num(n) == [type |-> "number", num |-> n, str |-> ""]
Str(x) == [type |-> "string", num |-> 0, str |-> x]
Values == {Undefined, Num(1), Num(2), Str("1"), Str("page"), Str("table")}
NoArgs == [a |-> Undefined, b |-> Undefined, template |-> Undefined, name |-> Undefined]

\* the templates of z.enum([...]) in nuxt-scaffold that the model uses
Templates == {"page", "component"}

\* zod checks: z.number(), z.string(), z.enum(Templates); "any" is a
\* parameter the schema does not declare (z.object strips it)
ZodAccepts(check, v) ==
  CASE check = "number" -> v.type = "number"
    [] check = "string" -> v.type = "string"
    [] check = "template" -> v.type = "string" /\ v.str \in Templates
    [] OTHER -> TRUE

NoSchema == [a |-> "any", b |-> "any", template |-> "any", name |-> "any"]
\* the input schema a handler was registered with
InputSchema(name, by) ==
  IF by # "builtin" THEN NoSchema
  ELSE CASE name = "add" -> [NoSchema EXCEPT !.a = "number", !.b = "number"]
         [] name = "nuxt-scaffold" ->
              [NoSchema EXCEPT !.template = "template", !.name = "string"]
         [] OTHER -> NoSchema

\* inputSchema.safeParseAsync(request.params.arguments) succeeds
SchemaAccepts(schema, args) ==
  \A k \in DOMAIN schema : ZodAccepts(schema[k], args[k])

\* the arguments a client may send with a tools/call
CallArgs ==
  {[NoArgs EXCEPT !.a = x, !.b = y] : x \in {Num(1), Str("1")}, y \in {Num(2), Undefined}}
  \cup {[NoArgs EXCEPT !.template = t, !.name = n] :
          t \in {Str("page"), Str("table"), Num(1)}, n \in {Str("page"), Undefined}}

\* the text a handler returns
HandlerText(name, by, args) ==
  IF by = "builtin" /\ name = "add"
  THEN <<"sum", args.a.num + args.b.num>>
  ELSE <<name, 0>>

VARIABLES
  deployment,   \* which program sets the server up
  pc,           \* the position of the set-up code
  tools,        \* tools[sv]: _registeredTools of server sv, name -> registrant
  mcp,          \* the variable mcp of configureServer
  returned,     \* the server the user's mcpServerSetup returned, or None
  hookCalls,    \* how often nuxt.callHook('mcp:setup') ran
  hookMcp,      \* context.mcp of the hook call
  bound,        \* the server the /sse and /messages routes were given
  calls,        \* the number of tools/call requests dispatched
  handlerRuns,  \* handlerRuns[name]: how often the handler body ran
  scaffolded,   \* the files nuxi add has written
  callReply     \* the response to the last tools/call

pvars == <<deployment, pc, tools, mcp, returned, hookCalls, hookMcp, bound,
           calls, handlerRuns, scaffolded, callReply>>

NoReply == [name |-> NoTool, outcome |-> "none", text |-> <<NoTool, 0>>]
NoTools == [sv \in Servers |-> << >>]

\* a registry that accepts a name that is taken (Register then replaces the
\* entry)
CanRegisterAlways(reg, sv, name) == TRUE

\* server.tool(name, ...) by registrant by on server sv: McpServer throws
\* "Tool <name> is already registered" when the name is taken
CanRegister(reg, sv, name) == name \notin DOMAIN reg[sv]
Register(reg, sv, name, by) == [reg EXCEPT ![sv] = (name :> by) @@ @]
RECURSIVE RegisterAll(_, _, _, _)
RegisterAll(reg, sv, names, by) ==
  IF names = {} THEN reg
  ELSE LET n == CHOOSE x \in names : TRUE
       IN RegisterAll(Register(reg, sv, n, by), sv, names \ {n}, by)

\* the set-up of src/src/server.ts when it listens: one server with the tool
\* 'add', bound to the routes
ServingStandalone ==
  /\ deployment = "standalone"
  /\ pc = "serving"
  /\ tools = Register(NoTools, Default, "add", "builtin")
  /\ mcp = Default
  /\ returned = None
  /\ hookCalls = 0
  /\ hookMcp = None
  /\ bound = Default
  /\ calls = 0
  /\ handlerRuns = [n \in ToolNames |-> 0]
  /\ scaffolded = {}
  /\ callReply = NoReply


\* ============================================================ other parts
\* The state of the parts of the repository that run before or beside the
\* transport; each part has a specification of its own further down, and
\* every other specification leaves its variables alone.

\* ---- ViteMcp.configureServer after the routes: URL and IDE config files
VARIABLES
  options,      \* the ViteMcpOptions given to the plugin
  fs0,          \* the directories and files before configureServer ran
  fs,           \* the directories and files now
  cpc,          \* the position of configureServer / updateConfigs
  routeRoot,    \* the mount root given to setupRoutes
  sseUrl,       \* the URL computed from the options
  printed,      \* the URL written to the console
  configs,      \* the list updateConfigs works through
  failedIdes    \* the IDEs whose block threw

cvars == <<options, fs0, fs, cpc, routeRoot, sseUrl, printed, configs,
           failedIdes>>

Undef == "undefined"

ConfigIdle ==
  /\ options = Undef
  /\ fs0 = Undef
  /\ fs = Undef
  /\ cpc = "idle"
  /\ routeRoot = Undef
  /\ sseUrl = Undef
  /\ printed = {}
  /\ configs = {}
  /\ failedIdes = {}

\* ---- the handler groups of the Nuxt module (capability gating)
VARIABLES
  caller,       \* who calls the groups: the module's set-up or a test
  modules,      \* context.modules, the capability flags
  gpc,          \* the position in the caller's sequence of group calls
  registered    \* the tool and prompt names registered on context.mcp

gvars == <<caller, modules, gpc, registered>>

NoModules ==
  [hasNuxtUI |-> FALSE, hasNuxtAuth |-> FALSE, hasDrizzle |-> FALSE,
   hasUIUXNeeds |-> FALSE]

GatingIdle ==
  /\ caller = "none"
  /\ modules = NoModules
  /\ gpc = 0
  /\ registered = {}

\* ---- scripts/release.sh
VARIABLES
  version,      \* $1, a string of characters
  onMain,       \* whether the current branch is main
  rpc,          \* the step the script is at
  cwd,          \* the working directory
  passed,       \* the checks that have run and succeeded
  bumped,       \* the package.json files that carry the new version
  committed,    \* the release commit exists
  tagged,       \* the tag exists
  pushed,       \* what has been pushed to origin
  exitCode      \* -1 while the script runs, then its exit status

rvars == <<version, onMain, rpc, cwd, passed, bumped, committed, tagged,
           pushed, exitCode>>

ReleaseIdle ==
  /\ version = << >>
  /\ onMain = TRUE
  /\ rpc = "idle"
  /\ cwd = "root"
  /\ passed = {}
  /\ bumped = {}
  /\ committed = FALSE
  /\ tagged = FALSE
  /\ pushed = {}
  /\ exitCode = -1

\* ---- interceptStdout of the 'nuxt-scaffold' tool
VARIABLES
  write,        \* process.stdout.write and process.stderr.write: 0 is the
                \* original function, i the wrapper of invocation i
  oldWrite,     \* oldStdout and oldStderr of each invocation
  ipc,          \* where each invocation of interceptStdout is
  captured,     \* the arrays stdout and stderr of each invocation
  intercepted   \* what each invocation returned as stdout and stderr

ivars == <<write, oldWrite, ipc, captured, intercepted>>

InterceptIdle ==
  /\ write = << >>
  /\ oldWrite = << >>
  /\ ipc = << >>
  /\ captured = << >>
  /\ intercepted = << >>

\* ---- the Nuxt hooks and the runtime tools that answer from them
VARIABLES
  variant,        \* which module set-up runs: "byValue" (module.ts with
                  \* registerNuxtRuntimeTools) or "context" (the set-up with
                  \* promiseWithResolve and toolsNuxtRuntime)
  toolsReady,     \* mcpServerSetup has registered the runtime tools
  components,     \* the variable the 'components:extend' listener assigns
  pages,          \* the variable the 'pages:extend' listener assigns
  unimport,       \* the variable, or the promise's value; 0 while unset
  toolComponents, \* the parameter components of registerNuxtRuntimeTools
  toolUnimport,   \* the parameter unimport of registerNuxtRuntimeTools
  delivered,      \* per hook: the value of its latest firing, 0 before
  firstContext,   \* the value of the first 'imports:context' firing
  sinceReady,     \* the hooks that have fired since the tools were registered
  waiting,        \* the auto-imports requests awaiting the promise
  nextRequest,    \* the number of the next request
  replies         \* the responses given so far

hvars == <<variant, toolsReady, components, pages, unimport, toolComponents,
           toolUnimport, delivered, firstContext, sinceReady, waiting,
           nextRequest, replies>>

HooksIdle ==
  /\ variant = "none"
  /\ toolsReady = FALSE
  /\ components = 0
  /\ pages = 0
  /\ unimport = 0
  /\ toolComponents = 0
  /\ toolUnimport = 0
  /\ delivered = << >>
  /\ firstContext = 0
  /\ sinceReady = {}
  /\ waiting = {}
  /\ nextRequest = 1
  /\ replies = {}


\* the transport after construction: no session, nothing posted
NoSessions ==
  /\ running = TRUE
  /\ nextId = 1
  /\ clientTransports = << >>
  /\ resOpen = [s \in SessionIds |-> FALSE]
  /\ sseResponse = [s \in SessionIds |-> FALSE]
  /\ mcpTransport = None
  /\ pending = {}
  /\ posted = [s \in SessionIds |-> 0]
  /\ stream = [s \in SessionIds |-> << >>]

Init == NoSessions /\ ServingStandalone /\ ConfigIdle /\ GatingIdle /\ ReleaseIdle /\ InterceptIdle /\ HooksIdle

\* ---------------------------------------------------- variants of /sse
\* the handler without clientTransports.set
SseOpenUnregistered ==
  /\ running
  /\ nextId \in SessionIds
  /\ LET s == nextId IN
       /\ resOpen' = [resOpen EXCEPT ![s] = TRUE]
       /\ mcpTransport' = s
       /\ sseResponse' = [sseResponse EXCEPT ![s] = TRUE]
       /\ stream' = [stream EXCEPT ![s] = Append(@, Handshake(s))]
       /\ nextId' = nextId + 1
  /\ UNCHANGED <<running, clientTransports, pending, posted>>
  /\ UNCHANGED <<pvars, cvars, gvars, rvars, ivars, hvars>>

\* the handler with a sessionId that is not fresh: the smallest identifier
\* that is not registered at the moment
SseOpenReusesId ==
  /\ running
  /\ nextId \in SessionIds
  /\ LET free == SessionIds \ DOMAIN clientTransports
         s == CHOOSE x \in free : \A y \in free : x <= y
     IN
       /\ clientTransports' = (s :> s) @@ clientTransports
       /\ resOpen' = [resOpen EXCEPT ![s] = TRUE]
       /\ mcpTransport' = s
       /\ sseResponse' = [sseResponse EXCEPT ![s] = TRUE]
       /\ stream' = [stream EXCEPT ![s] = Append(@, Handshake(s))]
       /\ nextId' = nextId + 1
  /\ UNCHANGED <<running, pending, posted>>
  /\ UNCHANGED <<pvars, cvars, gvars, rvars, ivars, hvars>>

\* ------------------------------------------------------------ /sse handler
\* new SSEServerTransport (sessionId = randomUUID()), clientTransports.set,
\* res.on('close'), then server.connect(transport): _transport = transport
\* and transport.start() writes the endpoint event and sets _sseResponse.
\* No await precedes the end of start(), so the handler runs as one step.
SseOpen ==
  /\ running
  /\ nextId \in SessionIds
  /\ LET s == nextId IN
       /\ clientTransports' = (s :> s) @@ clientTransports
       /\ resOpen' = [resOpen EXCEPT ![s] = TRUE]
       /\ mcpTransport' = s
       /\ sseResponse' = [sseResponse EXCEPT ![s] = TRUE]
       /\ stream' = [stream EXCEPT ![s] = Append(@, Handshake(s))]
       /\ nextId' = nextId + 1
  /\ UNCHANGED <<running, pending, posted>>
  /\ UNCHANGED <<pvars, cvars, gvars, rvars, ivars, hvars>>

\* the 'close' listener without clientTransports.delete
SseCloseKeepsEntry(s) ==
  /\ running
  /\ resOpen[s]
  /\ resOpen' = [resOpen EXCEPT ![s] = FALSE]
  /\ sseResponse' = [sseResponse EXCEPT ![s] = FALSE]
  /\ mcpTransport' = None
  /\ UNCHANGED <<running, nextId, clientTransports, pending, posted, stream>>
  /\ UNCHANGED <<pvars, cvars, gvars, rvars, ivars, hvars>>

\* the 'close' listener deleting the entry of the transport connected last
\* instead of the entry of its own transport
SseCloseDeletesCurrent(s) ==
  /\ running
  /\ resOpen[s]
  /\ resOpen' = [resOpen EXCEPT ![s] = FALSE]
  /\ clientTransports' =
       [k \in DOMAIN clientTransports \ {mcpTransport} |-> clientTransports[k]]
  /\ sseResponse' = [sseResponse EXCEPT ![s] = FALSE]
  /\ mcpTransport' = None
  /\ UNCHANGED <<running, nextId, pending, posted, stream>>
  /\ UNCHANGED <<pvars, cvars, gvars, rvars, ivars, hvars>>

\* the 'close' event of the /sse response of s: the listener of the handler
\* deletes the registry entry, the listener of start() clears _sseResponse
\* and calls onclose, which is the server's _onclose: _transport = undefined.
SseClose(s) ==
  /\ running
  /\ resOpen[s]
  /\ resOpen' = [resOpen EXCEPT ![s] = FALSE]
  /\ clientTransports' =
       [k \in DOMAIN clientTransports \ {s} |-> clientTransports[k]]
  /\ sseResponse' = [sseResponse EXCEPT ![s] = FALSE]
  /\ mcpTransport' = None
  /\ UNCHANGED <<running, nextId, pending, posted, stream>>
  /\ UNCHANGED <<pvars, cvars, gvars, rvars, ivars, hvars>>

\* -------------------------------------------------------- /messages handler
\* event.node.req.headers['x-session-id'] || getQuery(event).sessionId
ClientId(header, query) == IF header # None THEN header ELSE query

\* the checks with the registry lookup ahead of the test for a missing id
RouteStatusLookupFirst(method, clientId) ==
  IF method # "POST" THEN 405
  ELSE IF clientId \notin DOMAIN clientTransports THEN 404
  ELSE IF clientId = None \/ clientId = Multi THEN 400
  ELSE 200

\* the checks with the test of the HTTP method after the tests of the id
RouteStatusMethodLast(method, clientId) ==
  IF clientId = None \/ clientId = Multi THEN 400
  ELSE IF clientId \notin DOMAIN clientTransports THEN 404
  ELSE IF method # "POST" THEN 405
  ELSE 200

\* the checks of the handler ahead of handlePostMessage, in the order of the
\* code; 200 stands for "all passed"
RouteStatus(method, clientId) ==
  IF method # "POST" THEN 405
  ELSE IF clientId = None \/ clientId = Multi THEN 400
  ELSE IF clientId \notin DOMAIN clientTransports THEN 404
  ELSE 200

StatusMessage(status) ==
  CASE status = 405 -> "Method Not Allowed"
    [] status = 400 -> "Client ID not provided"
    [] status = 404 -> "Transport not found"
    [] OTHER -> "none"

\* the HTTP reply of SSEServerTransport.handlePostMessage(req, res) on
\* transport t: 500 without _sseResponse, 400 for a body it can not read or
\* parse, else 202 "Accepted" once the message went to onmessage
PostReply(t, body) ==
  IF ~sseResponse[t] THEN HttpReply(500, "SSE connection not established", t)
  ELSE IF body.kind = "malformed" THEN HttpReply(400, "Invalid message", t)
  ELSE HttpReply(202, "Accepted", t)

\* the HTTP reply of the /messages handler to a call with these inputs in the
\* current state; transport is the transport the call was handed to
MessagesReply(method, header, query, body) ==
  LET clientId == ClientId(header, query)
      status == RouteStatus(method, clientId)
  IN IF status # 200
     THEN HttpReply(status, StatusMessage(status), None)
     ELSE PostReply(clientTransports[clientId], body)

\* Protocol._onrequest, called from transport.onmessage inside
\* handlePostMessage: no handler for the method -> the error response is sent
\* at once through _transport; otherwise the handler is started and its
\* result is sent when it resolves (Complete).
OnRequest(t, body) ==
  IF body.method = "unknown"
  THEN /\ stream' = Send(mcpTransport, Response(body.id, t, "error"))
       /\ pending' = pending
  ELSE /\ pending' = pending \cup
            {[id |-> body.id, sess |-> t, valid |-> body.valid]}
       /\ stream' = stream

\* a rejection that drops the session whose transport refused the message
RejectedDropsSession(reply) ==
  /\ clientTransports' =
       [k \in DOMAIN clientTransports \ {reply.transport} |-> clientTransports[k]]
  /\ UNCHANGED <<resOpen, sseResponse, pending, posted, stream>>

\* a call that was not accepted: createError is thrown, or handlePostMessage
\* answered 400 / 500; nothing else happens
Rejected(reply) ==
  UNCHANGED <<clientTransports, resOpen, sseResponse, pending, posted, stream>>

\* a call that handlePostMessage accepted: the request reaches the server
Accepted(t, body) ==
  /\ body.id = posted[t] + 1       \* a client numbers its requests 1, 2, ...
  /\ TotalPosted(MaxSessions) < MaxPosts
  /\ OnRequest(t, body)
  /\ posted' = [posted EXCEPT ![t] = @ + 1]
  /\ UNCHANGED <<clientTransports, resOpen, sseResponse>>

Messages(method, header, query, body) ==
  /\ running
  /\ LET reply == MessagesReply(method, header, query, body)
     IN IF reply.status = 202
        THEN Accepted(reply.transport, body)
        ELSE Rejected(reply)
  /\ UNCHANGED <<running, nextId, mcpTransport>>
  /\ UNCHANGED <<pvars, cvars, gvars, rvars, ivars, hvars>>

\* a handler that resolves only after the handlers of the earlier requests
\* of its session
CompleteInPostOrder(p) ==
  /\ running
  /\ p \in pending
  /\ \A q \in pending : q.sess = p.sess => p.id <= q.id
  /\ stream' = Send(mcpTransport,
                    Response(p.id, p.sess, IF p.valid THEN "result" ELSE "error"))
  /\ pending' = pending \ {p}
  /\ UNCHANGED <<running, nextId, clientTransports, resOpen, sseResponse,
                 mcpTransport, posted>>
  /\ UNCHANGED <<pvars, cvars, gvars, rvars, ivars, hvars>>

\* a tool handler resolves: Protocol._onrequest sends the result (or the
\* error of a call whose params failed the schema) through the server's
\* _transport
Complete(p) ==
  /\ running
  /\ p \in pending
  /\ stream' = Send(mcpTransport,
                    Response(p.id, p.sess, IF p.valid THEN "result" ELSE "error"))
  /\ pending' = pending \ {p}
  /\ UNCHANGED <<running, nextId, clientTransports, resOpen, sseResponse,
                 mcpTransport, posted>>
  /\ UNCHANGED <<pvars, cvars, gvars, rvars, ivars, hvars>>

\* process.on('SIGINT'): await server.close() closes the server's current
\* transport (its response is ended, _sseResponse and _transport are
\* cleared), then process.exit(0) before any 'close' listener has run.
Sigint ==
  /\ running
  /\ running' = FALSE
  /\ mcpTransport' = None
  /\ IF mcpTransport # None
     THEN /\ sseResponse' = [sseResponse EXCEPT ![mcpTransport] = FALSE]
          /\ resOpen' = [resOpen EXCEPT ![mcpTransport] = FALSE]
     ELSE UNCHANGED <<sseResponse, resOpen>>
  /\ UNCHANGED <<nextId, clientTransports, pending, posted, stream>>
  /\ UNCHANGED <<pvars, cvars, gvars, rvars, ivars, hvars>>

\* the bodies worth sending: the handler reads the body only after its checks
\* passed, and a client numbers the requests of a session 1, 2, ...
BodiesFor(method, header, query) ==
  LET clientId == ClientId(header, query)
  IN IF RouteStatus(method, clientId) = 200
     THEN {Malformed} \cup {r \in Requests : r.id = posted[clientId] + 1}
     ELSE {Malformed}

Next ==
  \/ SseOpen
  \/ \E s \in SessionIds : SseClose(s)
  \/ \E method \in HttpMethods, header \in SessionIds \cup {None},
        query \in SessionIds \cup {None, Multi} :
       \E body \in BodiesFor(method, header, query) :
         Messages(method, header, query, body)
  \/ \E p \in pending : Complete(p)
  \/ Sigint

Spec == Init /\ [][Next]_vars

TypeOK ==
  /\ running \in BOOLEAN
  /\ nextId \in 1..(MaxSessions + 1)
  /\ DOMAIN clientTransports \subseteq SessionIds
  /\ mcpTransport \in SessionIds \cup {None}
  /\ \A p \in pending : p.sess \in SessionIds /\ p.id \in RequestIds
  /\ \A s \in SessionIds : posted[s] \in 0..MaxPosts

\* ------------------------------------------------------- set-up actions
\* the tools the Nuxt module registers itself (toolsScaffold stands for the
\* built-in registrations, which all happen without an await in between)
BuiltinNuxtTools == {"nuxt-scaffold"}
\* the tool of the server a user's mcpServerSetup constructs and returns
ReplacementTools == {"get-nuxt-root"}

PluginInit ==
  /\ NoSessions
  /\ ConfigIdle /\ GatingIdle /\ ReleaseIdle /\ InterceptIdle /\ HooksIdle
  /\ deployment \in Deployments
  /\ pc = "create"
  /\ tools = NoTools
  /\ mcp = None
  /\ returned = None
  /\ hookCalls = 0
  /\ hookMcp = None
  /\ bound = None
  /\ calls = 0
  /\ handlerRuns = [n \in ToolNames |-> 0]
  /\ scaffolded = {}
  /\ callReply = NoReply

\* new McpServer(...) and its first registrations: server.tool('add') in
\* src/src/server.ts, createMcpServerDefault behind `await mcpServer(vite)`
CreateServer ==
  /\ pc = "create"
  /\ mcp' = Default
  /\ IF deployment = "standalone"
     THEN /\ tools' = Register(tools, Default, "add", "builtin")
          /\ pc' = "routes"
     ELSE /\ tools' = Register(tools, Default, "get-vite-config", "builtin")
          /\ pc' = "userSetup"
  /\ UNCHANGED <<deployment, returned, hookCalls, hookMcp, bound, calls,
                 handlerRuns, scaffolded, callReply>>
  /\ UNCHANGED <<vars, cvars, gvars, rvars, ivars, hvars>>

\* the user's mcpServerSetup(mcp, vite): it registers the tool name on the
\* server it is given (or none) and returns a server of its own when ret.
\* ViteMcp continues with `returned || mcp`; the Nuxt module's wrapper awaits
\* the call and drops its value.
UserSetup(name, ret) ==
  /\ pc = "userSetup"
  /\ IF name # NoTool /\ ~CanRegister(tools, mcp, name)
     THEN /\ pc' = "failed"
          /\ UNCHANGED <<tools, mcp, returned>>
     ELSE LET own == IF name = NoTool THEN tools
                     ELSE Register(tools, mcp, name, "user")
          IN /\ tools' = IF ret
                         THEN RegisterAll(own, Replacement, ReplacementTools, "user")
                         ELSE own
             /\ returned' = IF ret THEN Replacement ELSE None
             /\ IF deployment = "vite"
                THEN /\ mcp' = IF ret THEN Replacement ELSE mcp
                     /\ pc' = "routes"
                ELSE /\ mcp' = mcp
                     /\ pc' = "builtins"
  /\ UNCHANGED <<deployment, hookCalls, hookMcp, bound, calls, handlerRuns,
                 scaffolded, callReply>>
  /\ UNCHANGED <<vars, cvars, gvars, rvars, ivars, hvars>>

\* promptNuxtBasic(context) ... toolsDesignSystem(context): context.mcp is
\* the parameter mcp of the wrapper
Builtins ==
  /\ pc = "builtins"
  /\ IF \E n \in BuiltinNuxtTools : ~CanRegister(tools, mcp, n)
     THEN /\ pc' = "failed"
          /\ tools' = tools
     ELSE /\ pc' = "hook"
          /\ tools' = RegisterAll(tools, mcp, BuiltinNuxtTools, "builtin")
  /\ UNCHANGED <<deployment, mcp, returned, hookCalls, hookMcp, bound, calls,
                 handlerRuns, scaffolded, callReply>>
  /\ UNCHANGED <<vars, cvars, gvars, rvars, ivars, hvars>>

\* await nuxt.callHook('mcp:setup', context): a listener of another module
\* registers the tool name (or none); the wrapper then returns undefined,
\* so ViteMcp keeps its mcp
Hook(name) ==
  /\ pc = "hook"
  /\ hookCalls' = hookCalls + 1
  /\ hookMcp' = mcp
  /\ IF name # NoTool /\ ~CanRegister(tools, mcp, name)
     THEN /\ pc' = "failed"
          /\ tools' = tools
     ELSE /\ pc' = "routes"
          /\ tools' = IF name = NoTool THEN tools
                      ELSE Register(tools, mcp, name, "hook")
  /\ UNCHANGED <<deployment, mcp, returned, bound, calls, handlerRuns,
                 scaffolded, callReply>>
  /\ UNCHANGED <<vars, cvars, gvars, rvars, ivars, hvars>>

\* routes that may be installed as soon as the server exists, ahead of the
\* user's set-up
SetupRoutesEarly ==
  /\ pc \in {"userSetup", "routes"}
  /\ bound = None
  /\ bound' = mcp
  /\ pc' = IF pc = "routes" THEN "serving" ELSE pc
  /\ UNCHANGED <<deployment, tools, mcp, returned, hookCalls, hookMcp, calls,
                 handlerRuns, scaffolded, callReply>>
  /\ UNCHANGED <<vars, cvars, gvars, rvars, ivars, hvars>>

\* await setupRoutes(mcpRoute, mcp, vite) / createMcpH3App(server) and
\* listen: the routes serve the sessions with this server
SetupRoutes ==
  /\ pc = "routes"
  /\ bound' = mcp
  /\ pc' = "serving"
  /\ UNCHANGED <<deployment, tools, mcp, returned, hookCalls, hookMcp, calls,
                 handlerRuns, scaffolded, callReply>>
  /\ UNCHANGED <<vars, cvars, gvars, rvars, ivars, hvars>>

\* what running the handler body does
RunHandler(name, by, args) ==
  /\ handlerRuns' = [handlerRuns EXCEPT ![name] = @ + 1]
  /\ scaffolded' = IF by = "builtin" /\ name = "nuxt-scaffold"
                   THEN scaffolded \cup {<<args.template.str, args.name.str>>}
                   ELSE scaffolded

\* a dispatch that runs the handler body before it looks at the schema
CallRunsFirst(name, args) ==
  /\ pc = "serving"
  /\ calls < MaxCalls
  /\ calls' = calls + 1
  /\ IF name \notin DOMAIN tools[bound]
     THEN /\ callReply' = [name |-> name, outcome |-> "error", text |-> <<NoTool, 0>>]
          /\ UNCHANGED <<handlerRuns, scaffolded>>
     ELSE LET by == tools[bound][name]
          IN /\ RunHandler(name, by, args)
             /\ callReply' =
                  IF SchemaAccepts(InputSchema(name, by), args)
                  THEN [name |-> name, outcome |-> "result",
                        text |-> HandlerText(name, by, args)]
                  ELSE [name |-> name, outcome |-> "error", text |-> <<NoTool, 0>>]
  /\ UNCHANGED <<deployment, pc, tools, mcp, returned, hookCalls, hookMcp, bound>>
  /\ UNCHANGED <<vars, cvars, gvars, rvars, ivars, hvars>>

\* McpServer's tools/call handler on the bound server: unknown tool ->
\* error; arguments that fail the tool's inputSchema -> error, the callback
\* is not called; otherwise the callback runs and its result is the reply
Call(name, args) ==
  /\ pc = "serving"
  /\ calls < MaxCalls
  /\ calls' = calls + 1
  /\ IF name \notin DOMAIN tools[bound]
     THEN /\ callReply' = [name |-> name, outcome |-> "error", text |-> <<NoTool, 0>>]
          /\ UNCHANGED <<handlerRuns, scaffolded>>
     ELSE LET by == tools[bound][name]
          IN IF ~SchemaAccepts(InputSchema(name, by), args)
             THEN /\ callReply' = [name |-> name, outcome |-> "error",
                                   text |-> <<NoTool, 0>>]
                  /\ UNCHANGED <<handlerRuns, scaffolded>>
             ELSE /\ RunHandler(name, by, args)
                  /\ callReply' = [name |-> name, outcome |-> "result",
                                   text |-> HandlerText(name, by, args)]
  /\ UNCHANGED <<deployment, pc, tools, mcp, returned, hookCalls, hookMcp, bound>>
  /\ UNCHANGED <<vars, cvars, gvars, rvars, ivars, hvars>>

PluginNext ==
  \/ CreateServer
  \/ \E name \in ToolNames \cup {NoTool}, ret \in BOOLEAN : UserSetup(name, ret)
  \/ Builtins
  \/ \E name \in ToolNames \cup {NoTool} : Hook(name)
  \/ SetupRoutes
  \/ \E name \in ToolNames, args \in CallArgs : Call(name, args)

PluginSpec == PluginInit /\ [][PluginNext]_pvars

PluginTypeOK ==
  /\ deployment \in Deployments
  /\ pc \in {"create", "userSetup", "builtins", "hook", "routes", "serving", "failed"}
  /\ mcp \in Servers \cup {None}
  /\ bound \in Servers \cup {None}
  /\ returned \in Servers \cup {None}
  /\ hookCalls \in 0..1
  /\ calls \in 0..MaxCalls
  /\ \A sv \in Servers : DOMAIN tools[sv] \subseteq ToolNames
  /\ \A n \in ToolNames : handlerRuns[n] \in 0..MaxCalls

\* ------------------------------------------------------------ vocabulary
Opened(s) == s < nextId
Closed(s) == Opened(s) /\ ~resOpen[s]
Headers == SessionIds \cup {None}
\* HTTP methods other than POST that a client may use on /messages
OtherMethods == {"GET", "PUT", "DELETE"}
Queries == SessionIds \cup {None, Multi}

\* the responses written on the stream of s
ResponsesOn(s) == {i \in DOMAIN stream[s] : stream[s][i].type = "response"}
\* the positions on the stream of s of the response to request id of session o
Answers(s, o, id) ==
  {i \in ResponsesOn(s) : stream[s][i].origin = o /\ stream[s][i].id = id}
IsPending(s, id) == \E p \in pending : p.sess = s /\ p.id = id
\* the step handles a call of /messages
MessagesStep ==
  \E method \in HttpMethods, header \in Headers, query \in Queries :
    \E body \in BodiesFor(method, header, query) :
      Messages(method, header, query, body)

\* ------------------------------------------------------------------ C1
\* C1: for two open sessions A and B, a message posted with A's identifier
\* never produces output on B's stream.
C1_SessionIsolation ==
  \A a \in SessionIds, b \in SessionIds :
    (a # b /\ resOpen[a] /\ resOpen[b]) =>
      \A i \in ResponsesOn(b) : stream[b][i].origin # a

\* ------------------------------------------------------------------ C2
\* C2: a request accepted for an open session, once its handler has resolved
\* and while the session's stream is open, has exactly one response with its
\* id on that session's stream and none on another session's stream.
C2_OneResponseOnOwnStream ==
  \A s \in SessionIds : \A id \in 1..posted[s] :
    (running /\ resOpen[s] /\ ~IsPending(s, id)) =>
      /\ Cardinality(Answers(s, s, id)) = 1
      /\ \A o \in SessionIds \ {s} : Answers(o, s, id) = {}

\* ------------------------------------------------------------------ C3
\* C3: every response on a session's stream carries the id of a request
\* posted on that session, no id appears twice, and once no handler of the
\* session is running every posted id has appeared.
C3_ResponseCorrelation ==
  \A s \in SessionIds :
    /\ \A i \in ResponsesOn(s) : stream[s][i].id \in 1..posted[s]
    /\ \A i \in ResponsesOn(s), j \in ResponsesOn(s) :
         stream[s][i].id = stream[s][j].id => i = j
    /\ (running /\ resOpen[s] /\ \A id \in 1..posted[s] : ~IsPending(s, id)) =>
         \A id \in 1..posted[s] : \E i \in ResponsesOn(s) : stream[s][i].id = id

\* ------------------------------------------------------------------ C4
\* C4: a POST bearing the identifier of a session that was never opened or
\* has closed is answered 404 'Transport not found' and is handed to no
\* transport, whichever way the identifier is supplied and whatever the body.
C4_UnknownSessionRejected ==
  running =>
    \A c \in SessionIds : ~resOpen[c] =>
      \A body \in Bodies :
        /\ \A query \in Queries : MessagesReply("POST", c, query, body)
                                    = HttpReply(404, "Transport not found", None)
        /\ MessagesReply("POST", None, c, body)
             = HttpReply(404, "Transport not found", None)

C4_Witness ==
  /\ running
  /\ \E c \in SessionIds : Closed(c) /\ posted[c] > 0
       /\ MessagesReply("POST", c, None, Malformed).status = 404
  /\ \E u \in SessionIds : ~Opened(u)
       /\ MessagesReply("POST", None, u, Malformed).status = 404

\* ------------------------------------------------------------------ C5
\* the reply to a POST that carries neither header nor query identifier
C5_MissingIdReply ==
  running =>
    \A body \in Bodies :
      MessagesReply("POST", None, None, body)
        = HttpReply(400, "Client ID not provided", None)

\* a step that changes the registry or a session is no call answered 400 or 404
C5_RejectionFrame ==
  (clientTransports' # clientTransports \/ resOpen' # resOpen
     \/ sseResponse' # sseResponse)
  => ~ \E method \in HttpMethods, header \in Headers, query \in Queries :
         \E body \in BodiesFor(method, header, query) :
           /\ MessagesReply(method, header, query, body).status \in {400, 404}
           /\ Messages(method, header, query, body)

\* C5: a POST without a session identifier is answered 400 'Client ID not
\* provided', and a call answered 400 or 404 leaves every session and the
\* registry as they were.
C5_MissingSessionId == [] C5_MissingIdReply /\ [][C5_RejectionFrame]_vars

C5_Witness ==
  /\ running
  /\ \E s \in SessionIds : resOpen[s] /\ posted[s] > 0
  /\ \E c \in SessionIds : Closed(c)
  /\ MessagesReply("POST", None, None, Malformed).status = 400

\* ------------------------------------------------------------------ C6
\* the step that closes a stream removes its key
C6_RemovedOnClose ==
  \A s \in SessionIds :
    (resOpen[s] /\ ~resOpen'[s] /\ running') => s \notin DOMAIN clientTransports'

\* a closed session is no key and is answered 404
C6_StaysRemoved ==
  \A s \in SessionIds :
    (running /\ Closed(s)) =>
      /\ s \notin DOMAIN clientTransports
      /\ RouteStatus("POST", s) = 404

\* C6: when a session's stream closes its id leaves the registry in that
\* step, and from then on a POST bearing the id is answered 404.
C6_DisconnectCleanup == [] C6_StaysRemoved /\ [][C6_RemovedOnClose]_vars

C6_Witness ==
  /\ running
  /\ \E s \in SessionIds, t \in SessionIds :
       /\ Closed(s) /\ resOpen[t] /\ s < t
       /\ s \notin DOMAIN clientTransports
       /\ t \in DOMAIN clientTransports

\* ------------------------------------------------------------------ C7
\* while the process runs the keys are the open sessions, each mapped to its own transport
C7_KeysAreOpenSessions ==
  running =>
    /\ DOMAIN clientTransports = {s \in SessionIds : resOpen[s]}
    /\ \A k \in DOMAIN clientTransports : clientTransports[k] = k

\* the registry changes by one insertion on open or one removal on close, never in a /messages step
C7_OnlyOpenAndClose ==
  /\ clientTransports' # clientTransports =>
       \/ /\ nextId' = nextId + 1
          /\ ~resOpen[nextId] /\ resOpen'[nextId]
          /\ clientTransports' = (nextId :> nextId) @@ clientTransports
       \/ \E s \in SessionIds :
            /\ resOpen[s] /\ ~resOpen'[s]
            /\ clientTransports' =
                 [k \in DOMAIN clientTransports \ {s} |-> clientTransports[k]]
  /\ clientTransports' # clientTransports => ~MessagesStep

\* C7: while the process runs the registry maps each identifier to the one
\* session that owns it and its keys are exactly the sessions opened and not
\* yet closed; it changes only by
\* the insertion of the new session on a stream open and the removal of the
\* closing session on a close, and never when a POST is handled.
C7_RegistryInvariant == [] C7_KeysAreOpenSessions /\ [][C7_OnlyOpenAndClose]_vars

C7_Witness ==
  /\ running
  /\ \E s \in SessionIds, t \in SessionIds :
       /\ Closed(s) /\ resOpen[t] /\ posted[t] > 0
       /\ DOMAIN clientTransports = {t}

\* ------------------------------------------------------------------ C8
\* an accepted POST is answered with the bare acknowledgement
C8_AckOnly ==
  \A method \in HttpMethods, header \in Headers, query \in Queries, body \in Bodies :
    LET reply == MessagesReply(method, header, query, body)
    IN (running /\ reply.status = 202) => reply.message = "Accepted"

\* a response appended to a stream was posted with that stream's identifier
C8_PushedOnOwnStream ==
  \A s \in SessionIds :
    (Len(stream'[s]) > Len(stream[s]) /\ stream'[s][Len(stream'[s])].type = "response")
      => stream'[s][Len(stream'[s])].origin = s

\* C8: the HTTP reply to an accepted POST is the bare acknowledgement, and
\* every response is written on the stream of the session whose POST carried
\* the request.
C8_AsymmetricRouting == [] C8_AckOnly /\ [][C8_PushedOnOwnStream]_vars

\* ------------------------------------------------------------------ C9
\* the handshake heads the stream and its session is registered while open
C9_HandshakeAndRegistered ==
  \A s \in SessionIds :
    /\ stream[s] # << >> => stream[s][1] = Handshake(s)
    /\ (running /\ resOpen[s] /\ stream[s] # << >>) =>
         /\ s \in DOMAIN clientTransports
         /\ \A body \in Bodies :
              /\ MessagesReply("POST", s, None, body).status # 404
              /\ MessagesReply("POST", None, s, body).status # 404

\* the step that opens a stream leaves exactly the handshake on it
C9_EmittedOnOpen ==
  \A s \in SessionIds :
    (~resOpen[s] /\ resOpen'[s]) => stream'[s] = << Handshake(s) >>

\* C9: the first event on every stream is the handshake with that session's
\* identifier, written by the step that opens the stream, and a session whose
\* handshake is out and whose stream is open is in the registry: a POST with
\* its identifier is not answered 404.
C9_HandshakeFirst == [] C9_HandshakeAndRegistered /\ [][C9_EmittedOnOpen]_vars

C9_Witness ==
  /\ running
  /\ \E s \in SessionIds :
       /\ resOpen[s] /\ posted[s] > 0
       /\ Len(stream[s]) > 1
       /\ stream[s][1] = Handshake(s)

\* ------------------------------------------------------------------ C10
\* CLOSED is kept, and a closed id is never a key again
C10_ClosedIsTerminal ==
  \A s \in SessionIds :
    (Closed(s) /\ running') =>
      (Closed(s)' /\ s \notin DOMAIN clientTransports')

\* a session leaves OPEN, or the registry, only in a close or shutdown step
C10_OnlyTeardownCloses ==
  (\E s \in SessionIds : resOpen[s] /\ (~resOpen'[s] \/ s \notin DOMAIN clientTransports'))
    => /\ ~MessagesStep
       /\ ~(\E p \in pending : Complete(p))
       /\ \/ \E s \in SessionIds : SseClose(s)
          \/ Sigint

\* C10: a session is unopened, OPEN or CLOSED; once CLOSED it stays CLOSED and its
\* id is never in the registry again; a session leaves OPEN only by the close
\* of its own stream or by the shutdown, never in a step that handles a POST
\* (malformed body, unknown method and invalid params included) or in which
\* a handler resolves.
C10_SessionStateMachine == [][C10_ClosedIsTerminal /\ C10_OnlyTeardownCloses]_vars

C10_Witness ==
  /\ running
  /\ nextId > MaxSessions
  /\ \E s \in SessionIds, t \in SessionIds :
       /\ Closed(s) /\ s < t /\ resOpen[t]
       /\ \E i \in ResponsesOn(t) :
            stream[t][i].origin = t /\ stream[t][i].outcome = "error"

\* ------------------------------------------------------------------ C11
\* the close of one stream leaves every other session as it was
C11_OnlyThatSessionTornDown ==
  \A o \in SessionIds :
    SseClose(o) =>
      \A s \in SessionIds \ {o} :
        /\ resOpen'[s] = resOpen[s]
        /\ sseResponse'[s] = sseResponse[s]
        /\ (s \in DOMAIN clientTransports) = (s \in DOMAIN clientTransports')

\* a request with an unknown method, accepted on open session s after another
\* session closed, has its error response on the stream of s at once
C11_AnsweredAfterOtherClosed ==
  \A s \in SessionIds :
    (/\ posted'[s] = posted[s] + 1
     /\ pending' = pending
     /\ resOpen[s]
     /\ \E o \in SessionIds \ {s} : Closed(o))
      => \E i \in DOMAIN stream'[s] :
           stream'[s][i] = Response(posted'[s], s, "error")

\* a handler of open session s, the session connected last, resolves after
\* another session closed: its response is written on the stream of s
C11_ResolvedAfterOtherClosed ==
  \A p \in pending :
    (/\ pending' = pending \ {p}
     /\ running /\ resOpen[p.sess]
     /\ p.sess = nextId - 1
     /\ \E o \in SessionIds \ {p.sess} : Closed(o))
      => \E i \in DOMAIN stream'[p.sess] :
           /\ stream'[p.sess][i].type = "response"
           /\ stream'[p.sess][i].id = p.id
           /\ stream'[p.sess][i].origin = p.sess

\* C11: when one session's stream closes only that session is torn down:
\* every other open session stays open and registered, and a request posted
\* on it afterwards is still answered on its own stream.
C11_DisconnectIsolation ==
  [][/\ C11_OnlyThatSessionTornDown
     /\ C11_AnsweredAfterOtherClosed
     /\ C11_ResolvedAfterOtherClosed]_vars

\* ------------------------------------------------------------------ C12
\* C12: once the interrupt handler has run (server.close() awaited, then the
\* process exits), every session that was open at the signal has been
\* closed, not only the one connected last: no open session is left behind.
C12_ShutdownClosesAll ==
  [][(running /\ ~running') =>
       \A s \in SessionIds : resOpen[s] => (~resOpen'[s] /\ ~sseResponse'[s])]_vars

\* ------------------------------------------------------------------ C15
\* a step never rewrites a stream: it leaves it as it is or puts one event
\* after the events already written
C15_AppendOnly ==
  \A s \in SessionIds :
    \/ stream'[s] = stream[s]
    \/ /\ Len(stream'[s]) = Len(stream[s]) + 1
       /\ SubSeq(stream'[s], 1, Len(stream[s])) = stream[s]

\* the response written when a handler resolves is the response of that
\* handler, whatever other handlers of the session are still running
C15_WrittenOnCompletion ==
  \A p \in pending :
    (pending' = pending \ {p} /\ stream' # stream) =>
      \E s \in SessionIds :
        stream'[s] = Append(stream[s],
                            Response(p.id, p.sess, IF p.valid THEN "result" ELSE "error"))

\* any running handler may resolve next, the one of a later request before
\* the one of an earlier request of the same session
C15_NeverBlocked ==
  running => \A p \in pending : ENABLED Complete(p)

C16_UnknownMethodAnswered ==
  \A s \in SessionIds :
    (posted'[s] = posted[s] + 1 /\ pending' = pending /\ resOpen[s]) =>
      \E i \in DOMAIN stream'[s] :
        stream'[s][i] = Response(posted'[s], s, "error")

\* a request of open session s whose params fail the schema has, when the
\* call is settled, an error response with its id on the stream of s
C16_InvalidParamsAnswered ==
  \A p \in pending :
    (pending' = pending \ {p} /\ ~p.valid /\ resOpen[p.sess]) =>
      \E i \in DOMAIN stream'[p.sess] :
        stream'[p.sess][i] = Response(p.id, p.sess, "error")

\* neither kind of request closes or unregisters a session
C16_SessionKept ==
  (MessagesStep \/ \E p \in pending : Complete(p)) =>
    (resOpen' = resOpen /\ clientTransports' = clientTransports)

\* C16: a request naming an unregistered method, or whose params fail the
\* schema, is answered with an error response carrying its id on the stream
\* of the session it was posted on, and the session stays open and
\* registered.
C16_ErrorOnOriginatingStream ==
  [][/\ C16_UnknownMethodAnswered
     /\ C16_InvalidParamsAnswered
     /\ C16_SessionKept]_vars

\* ------------------------------------------------------------------ C17
\* the reply to a call with a method other than POST, whatever it carries
C17_Reply405 ==
  \A method \in OtherMethods, header \in Headers, query \in Queries,
     body \in Bodies :
    MessagesReply(method, header, query, body) =
      HttpReply(405, "Method Not Allowed", None)

\* a step that changes anything does not handle such a call
C17_NoEffect ==
  (clientTransports' # clientTransports \/ stream' # stream
     \/ pending' # pending \/ posted' # posted \/ sseResponse' # sseResponse)
  => ~ \E method \in HttpMethods \ {"POST"}, header \in Headers,
          query \in Queries :
         \E body \in BodiesFor(method, header, query) :
           Messages(method, header, query, body)

\* C17: a call of /messages with a method other than POST is answered 405
\* 'Method Not Allowed' whatever session identifier it carries (registered,
\* unknown, missing or repeated), is handed to no transport and leaves the
\* registry and every session unchanged.
C17_PostOnly == [] C17_Reply405 /\ [][C17_NoEffect]_vars

\* a GET that carries the identifier of an open session which has already
\* accepted a POST, while another session is closed
C17_Witness ==
  /\ running
  /\ \E c \in SessionIds : Closed(c)
  /\ \E s \in SessionIds :
       /\ s \in DOMAIN clientTransports /\ resOpen[s] /\ posted[s] > 0
       /\ MessagesReply("GET", s, None, Malformed).status = 405
       /\ MessagesReply("POST", s, None, Malformed).status # 405

\* ------------------------------------------------------------------ C18
\* the result of a handler that resolves after the stream of its session
\* closed is written on no stream
C18_NotDeliveredElsewhere ==
  \A p \in pending :
    (pending' = pending \ {p} /\ Closed(p.sess)) => stream' = stream

\* its completion neither stops the process nor registers the session again
C18_NoCrashNoReinsert ==
  \A p \in pending :
    (pending' = pending \ {p} /\ Closed(p.sess)) =>
      /\ running'
      /\ p.sess \notin DOMAIN clientTransports'

\* C18: when a session's stream closes while a handler of one of its
\* requests is running, the request is unanswerable: the handler's result is
\* delivered on no other session's stream, its completion does not stop the
\* process and the closed session is not put back into the registry.
C18_InFlightAfterClose ==
  [][C18_NotDeliveredElsewhere /\ C18_NoCrashNoReinsert]_vars

\* ------------------------------------------------------------------ C13
\* the arguments fail the schema the built-in tool declares: a or b is not a
\* number for 'add'; template is not one of the enum's strings, or name is
\* not a string, for 'nuxt-scaffold'
C13_FailsSchema(name, args) ==
  \/ /\ name = "add"
     /\ args.a.type # "number" \/ args.b.type # "number"
  \/ /\ name = "nuxt-scaffold"
     /\ \/ args.template.type # "string"
        \/ args.template.str \notin Templates
        \/ args.name.type # "string"

\* such a call is answered with an error and runs no handler body
C13_HandlerNotRun ==
  \A name \in {"add", "nuxt-scaffold"}, args \in CallArgs :
    (/\ calls' = calls + 1
     /\ name \in DOMAIN tools[bound]
     /\ tools[bound][name] = "builtin"
     /\ C13_FailsSchema(name, args)
     /\ Call(name, args))
      => /\ handlerRuns' = handlerRuns
         /\ scaffolded' = scaffolded
         /\ callReply'.outcome = "error"

\* the handler body of a built-in tool has run at most as often as calls
\* were answered with a result, and nuxt-scaffold has written only files of
\* declared templates
C13_RunsOnlyWhenValid ==
  /\ \A n \in ToolNames :
       handlerRuns[n] > 0 => n \in DOMAIN tools[bound]
  /\ \A f \in scaffolded : f[1] \in Templates /\ f[2] # ""

\* C13: a tools/call whose arguments fail the tool's declared input schema
\* (a non-numeric a or b for 'add', a template outside the enum for
\* 'nuxt-scaffold') never runs the handler body: the run counter and the
\* handler's side effects are unchanged and the reply is an error.
C13_ValidationPrecedesExecution ==
  [] C13_RunsOnlyWhenValid /\ [][C13_HandlerNotRun]_pvars

\* nuxt-scaffold has been called with arguments it rejects and has not run
C13_Witness ==
  /\ pc = "serving" /\ calls > 0
  /\ "nuxt-scaffold" \in DOMAIN tools[bound]
  /\ tools[bound]["nuxt-scaffold"] = "builtin"
  /\ callReply = [name |-> "nuxt-scaffold", outcome |-> "error", text |-> <<NoTool, 0>>]
  /\ handlerRuns["nuxt-scaffold"] = 0

\* ------------------------------------------------------------------ C14
\* the step registers name for registrant by on the server mcp
C14_Registers(name, by) ==
  \/ by = "user" /\ \E ret \in BOOLEAN : UserSetup(name, ret)
  \/ by = "builtin" /\ name \in BuiltinNuxtTools /\ Builtins
  \/ by = "hook" /\ Hook(name)

C14_DuplicateRejected ==
  \A name \in ToolNames, by \in Registrants :
    (pc \in {"userSetup", "builtins", "hook"}
     /\ name \in DOMAIN tools[mcp]
     /\ C14_Registers(name, by))
      => (pc' = "failed" /\ tools' = tools)

\* a registered name keeps the handler it was first given
C14_FirstKept ==
  \A sv \in Servers : \A name \in DOMAIN tools[sv] :
    name \in DOMAIN tools'[sv] /\ tools'[sv][name] = tools[sv][name]

\* after a failed registration the set-up is over: no routes are installed
C14_FailedHasNoRoutes ==
  pc = "failed" => bound = None

C19_RoutesAfterSetup ==
  bound # None =>
    /\ pc = "serving"
    /\ bound = mcp
    /\ tools[bound] # << >>
    /\ deployment = "nuxt" =>
         /\ BuiltinNuxtTools \subseteq DOMAIN tools[bound]
         /\ hookCalls = 1
         /\ hookMcp = bound

\* the steps of set-up come in the order of the code, the routes last
C19_Order ==
  /\ (pc' # pc /\ pc' = "userSetup") => pc = "create"
  /\ (pc' # pc /\ pc' = "builtins") => (pc = "userSetup" /\ deployment = "nuxt")
  /\ (pc' # pc /\ pc' = "hook") => pc = "builtins"
  /\ (pc' # pc /\ pc' = "routes") =>
       \/ deployment = "standalone" /\ pc = "create"
       \/ deployment = "vite" /\ pc = "userSetup"
       \/ deployment = "nuxt" /\ pc = "hook"
  /\ bound' # bound => (pc = "routes" /\ pc' = "serving")
  /\ hookCalls' # hookCalls => (pc = "hook" /\ hookCalls = 0)

\* once the routes exist no handler is registered any more
C19_NoLateRegistration ==
  bound # None => (tools' = tools /\ bound' = bound)

\* C19: the /sse and /messages routes are installed only after the server
\* was created and the user's mcpServerSetup, the built-in registrations and
\* the 'mcp:setup' hook (called once, with the server the routes get) have
\* completed; afterwards the set of handlers does not change.
C19_RegistrationBeforeRoutes ==
  [] C19_RoutesAfterSetup /\ [][C19_Order /\ C19_NoLateRegistration]_pvars

\* the Nuxt module serves a tool of the user's set-up, the built-in tools and
\* a tool of a hook listener, and a call has been dispatched
C19_Witness ==
  /\ deployment = "nuxt" /\ pc = "serving" /\ calls > 0
  /\ \E n \in DOMAIN tools[bound] : tools[bound][n] = "user"
  /\ \E n \in DOMAIN tools[bound] : tools[bound][n] = "hook"
  /\ tools[bound]["nuxt-scaffold"] = "builtin"

\* ------------------------------------------------------------------ C20
\* the server the claim expects behind the routes
C20_Expected == IF returned # None THEN returned ELSE Default

\* a set-up function given to ViteMcp directly
C20_DirectReturnHonoured ==
  (deployment = "vite" /\ bound # None) => bound = C20_Expected

\* a set-up function given through the options of the Nuxt module
C20_ModuleReturnHonoured ==
  (deployment = "nuxt" /\ bound # None) => bound = C20_Expected

\* C20: the routes are bound to the server the user's mcpServerSetup
\* returned when it returned one, and to the original server when it
\* returned nothing, for a set-up given to ViteMcp and for one given through
\* the options of the Nuxt module alike.
C20_ReturnedServerIsBound ==
  C20_DirectReturnHonoured /\ C20_ModuleReturnHonoured

\* ================================================= URL and IDE config files
\* ViteMcp.configureServer from setupRoutes on, and updateConfigs.
MaxExtra == 1

Ides == {"cursor", "vscode", "windsurf"}

\* the file the code reads and writes for an IDE
ConfigFile(ide) ==
  CASE ide = "cursor" -> ".cursor/mcp.json"
    [] ide = "vscode" -> ".vscode/mcp.json"
    [] OTHER -> "~/.codeium/windsurf/mcp_config.json"

\* the file the documentation of updateConfig names for an IDE
DocumentedFile(ide) ==
  CASE ide = "cursor" -> ".cursor/mcp.json"
    [] ide = "vscode" -> ".vscode/settings.json"
    [] OTHER -> "~/.codeium/windsurf/mcp_config.json"

Paths == {ConfigFile(i) : i \in Ides} \cup {DocumentedFile(i) : i \in Ides}

\* URLs: host, port and path (mount root, suffix)
Url(host, port, root) == [host |-> host, port |-> port, path |-> <<root, "/sse">>]

\* the entry each IDE block writes for a URL
ServerEntry(ide, url) ==
  CASE ide = "cursor" -> [type |-> "none", key |-> "url", url |-> url]
    [] ide = "vscode" -> [type |-> "sse", key |-> "url", url |-> url]
    [] OTHER -> [type |-> "none", key |-> "serverUrl", url |-> url]

\* file contents: no file, an empty file, text that is not JSON, or a JSON
\* object with its other top-level keys, its servers object (mcpServers or
\* servers) and whether the text is laid out as JSON.stringify(x, null, 2)
Absent == [kind |-> "absent", top |-> {}, hasServers |-> FALSE, servers |-> << >>, pretty |-> FALSE]
Json(top, hasServers, servers, pretty) ==
  [kind |-> "json", top |-> top, hasServers |-> hasServers, servers |-> servers,
   pretty |-> pretty]
\* a hand-written config: another top-level key, a server of the user's and
\* an old entry named vite
OtherJson(ide) ==
  Json({"inputs"}, TRUE,
       ("mine" :> ServerEntry(ide, Url("localhost", 3000, "/__mcp"))) @@ ("vite" :> ServerEntry(ide, Url("localhost", 3000, "/__mcp"))),
       FALSE)

\* the file system in which each IDE is in the state st[ide]
FileSystem(st) ==
  [dirs |-> {i \in Ides : st[i] # "nodir"},
   files |-> [p \in Paths |->
     IF \E i \in Ides : p = ConfigFile(i)
     THEN LET i == CHOOSE i \in Ides : p = ConfigFile(i)
          IN CASE st[i] = "empty" -> [Absent EXCEPT !.kind = "empty"]
               [] st[i] = "malformed" -> [Absent EXCEPT !.kind = "malformed"]
               [] st[i] = "other" -> OtherJson(i)
               [] OTHER -> Absent
     ELSE IF st["vscode"] = "nodir" THEN Absent ELSE Json({"editor.tabSize"}, FALSE, << >>, FALSE)]]

\* the options: updateConfig absent, 'auto', false, one type or an array;
\* updateConfigAdditionalServers the first k of three servers
OptionSets ==
  [printUrl : BOOLEAN,
   updateConfig :
     { [form |-> "undefined", of |-> {}], [form |-> "auto", of |-> {}],
       [form |-> "false", of |-> {}],
       [form |-> "single", of |-> {"cursor"}], [form |-> "single", of |-> {"windsurf"}],
       [form |-> "array", of |-> {"cursor"}], [form |-> "array", of |-> {"vscode"}],
       [form |-> "array", of |-> Ides] },
   updateConfigServerName : {Undef, "nuxt"},
   extra :
     {SubSeq(<< [name |-> "nuxt-docs", url |-> Url("mcp.nuxt.com", 443, "")],
                [name |-> "mine", url |-> Url("mine.example", 443, "")],
                [name |-> "third", url |-> Url("third.example", 443, "")] >>, 1, k) :
        k \in 0..MaxExtra},
   mcpRouteRoot : {Undef, "/custom"},
   mcpPath : {Undef, "/old"},
   host : {Undef, "devbox"},
   port : {0, 4000}]

\* options.mcpRouteRoot ?? options.mcpPath ?? '/__mcp'
McpRoute(o) ==
  IF o.mcpRouteRoot # Undef THEN o.mcpRouteRoot
  ELSE IF o.mcpPath # Undef THEN o.mcpPath
  ELSE "/__mcp"

\* the path at which setupRoutes(base, ...) mounts the stream endpoint
MountedSse(base) == <<base, "/sse">>

\* a URL that always carries the default mount root
SseUrlOfDefaultRoot(o) ==
  Url(IF o.host = Undef THEN "localhost" ELSE o.host,
      IF o.port = 0 THEN 5173 ELSE o.port,
      "/__mcp")

\* `${protocol}://${options.host || 'localhost'}:${options.port || port}${mcpRoute}/sse`
SseUrlOf(o) ==
  Url(IF o.host = Undef THEN "localhost" ELSE o.host,
      IF o.port = 0 THEN 5173 ELSE o.port,
      McpRoute(o))

\* updateConfigServerName = 'vite' by default, and `|| 'vite'` at the use
ServerName(o) ==
  IF o.updateConfigServerName = Undef THEN "vite" ELSE o.updateConfigServerName

\* 'auto' that selects every IDE, whether its directory exists or not
ConfigsOfAll(o, f) ==
  CASE o.updateConfig.form \in {"undefined", "auto"} -> Ides
    [] o.updateConfig.form = "array" -> o.updateConfig.of
    [] OTHER -> {}

\* the list configs of updateConfigs: under 'auto' the IDEs whose directory
\* exists, for an array the array, for anything else the empty list
ConfigsOf(o, f) ==
  CASE o.updateConfig.form \in {"undefined", "auto"} -> f.dirs
    [] o.updateConfig.form = "array" -> o.updateConfig.of
    [] OTHER -> {}

RECURSIVE WithExtras(_, _, _)
\* for (const server of updateConfigAdditionalServers) servers[server.name] = ...
WithExtras(servers, ide, extra) ==
  IF extra = << >> THEN servers
  ELSE WithExtras((Head(extra).name :> ServerEntry(ide, Head(extra).url)) @@ servers,
                  ide, Tail(extra))

\* JSON.parse(text || '{}') of a file that exists, the assignments to the
\* servers object, and JSON.stringify(x, null, 2)
Updated(content, ide, o, url) ==
  LET base == IF content.kind = "json" /\ content.hasServers
              THEN content.servers ELSE << >>
      named == (ServerName(o) :> ServerEntry(ide, url)) @@ base
  IN Json(content.top, TRUE, WithExtras(named, ide, o.extra), TRUE)

ConfigInit ==
  /\ NoSessions
  /\ ServingStandalone
  /\ options \in OptionSets
  /\ \E st \in [Ides -> {"nodir", "nofile", "empty", "malformed", "other"}] : fs0 = FileSystem(st)
  /\ fs = fs0
  /\ cpc = "configure"
  /\ routeRoot = Undef
  /\ sseUrl = Undef
  /\ printed = {}
  /\ configs = {}
  /\ failedIdes = {}
  /\ GatingIdle
  /\ ReleaseIdle
  /\ InterceptIdle
  /\ HooksIdle

\* await setupRoutes(mcpRoute, mcp, vite); sseUrl; console.log if printUrl
Configure ==
  /\ cpc = "configure"
  /\ routeRoot' = McpRoute(options)
  /\ sseUrl' = SseUrlOf(options)
  /\ printed' = IF options.printUrl THEN {SseUrlOf(options)} ELSE {}
  /\ cpc' = "select"
  /\ UNCHANGED <<options, fs0, fs, configs, failedIdes>>
  /\ UNCHANGED <<vars, pvars, gvars, rvars, ivars, hvars>>

\* updateConfigs up to the first block: return at once for false
SelectConfigs ==
  /\ cpc = "select"
  /\ IF options.updateConfig.form = "false"
     THEN cpc' = "done" /\ configs' = {}
     ELSE cpc' = "cursor" /\ configs' = ConfigsOf(options, fs)
  /\ UNCHANGED <<options, fs0, fs, routeRoot, sseUrl, printed, failedIdes>>
  /\ UNCHANGED <<vars, pvars, gvars, rvars, ivars, hvars>>

\* the outcome of one block: mkdir, read and parse if the file exists,
\* assign, write.  io is what the file system does: "ok", a failing read or
\* a failing write.  catchesRead: readFile(...).catch(() => '{}')
BlockResult(ide, io, catchesRead) ==
  LET path == ConfigFile(ide)
      made == [fs EXCEPT !.dirs = @ \cup {ide}]
      old == fs.files[path]
      readFails == old.kind # "absent" /\ io = "readfail" /\ ~catchesRead
      text == IF old.kind # "absent" /\ io = "readfail" THEN [Absent EXCEPT !.kind = "empty"] ELSE old
  IN IF readFails \/ text.kind = "malformed" \/ io = "writefail"
     THEN [ok |-> FALSE, fs |-> made]
     ELSE [ok |-> TRUE,
           fs |-> [made EXCEPT !.files[path] = Updated(text, ide, options, sseUrl)]]

\* the Cursor block
UpdateCursor(io) ==
  /\ cpc = "cursor"
  /\ IF "cursor" \notin configs
     THEN cpc' = "vscode" /\ fs' = fs /\ failedIdes' = failedIdes
     ELSE LET r == BlockResult("cursor", io, FALSE)
          IN /\ fs' = r.fs
             /\ cpc' = IF r.ok THEN "vscode" ELSE "failed"
             /\ failedIdes' = IF r.ok THEN failedIdes ELSE failedIdes \cup {"cursor"}
  /\ UNCHANGED <<options, fs0, routeRoot, sseUrl, printed, configs>>
  /\ UNCHANGED <<vars, pvars, gvars, rvars, ivars, hvars>>

\* the VSCode block
UpdateVscode(io) ==
  /\ cpc = "vscode"
  /\ IF "vscode" \notin configs
     THEN cpc' = "windsurf" /\ fs' = fs /\ failedIdes' = failedIdes
     ELSE LET r == BlockResult("vscode", io, FALSE)
          IN /\ fs' = r.fs
             /\ cpc' = IF r.ok THEN "windsurf" ELSE "failed"
             /\ failedIdes' = IF r.ok THEN failedIdes ELSE failedIdes \cup {"vscode"}
  /\ UNCHANGED <<options, fs0, routeRoot, sseUrl, printed, configs>>
  /\ UNCHANGED <<vars, pvars, gvars, rvars, ivars, hvars>>

\* the Windsurf block, inside try / catch
UpdateWindsurf(io) ==
  /\ cpc = "windsurf"
  /\ IF "windsurf" \notin configs
     THEN fs' = fs /\ failedIdes' = failedIdes
     ELSE LET r == BlockResult("windsurf", io, TRUE)
          IN /\ fs' = r.fs
             /\ failedIdes' = IF r.ok THEN failedIdes ELSE failedIdes \cup {"windsurf"}
  /\ cpc' = "done"
  /\ UNCHANGED <<options, fs0, routeRoot, sseUrl, printed, configs>>
  /\ UNCHANGED <<vars, pvars, gvars, rvars, ivars, hvars>>

ConfigNext ==
  \/ Configure
  \/ SelectConfigs
  \/ \E io \in {"ok", "readfail", "writefail"} : UpdateCursor(io)
  \/ \E io \in {"ok", "readfail", "writefail"} : UpdateVscode(io)
  \/ \E io \in {"ok", "readfail", "writefail"} : UpdateWindsurf(io)

ConfigSpec == ConfigInit /\ [][ConfigNext]_cvars

\* ------------------------------------------------------------------ C21
\* the files whose content differs from the content before configureServer
C21_Changed == {p \in Paths : fs.files[p] # fs0.files[p]}

\* updateConfig: false leaves every directory and file as it was
C21_FalseTouchesNothing ==
  options.updateConfig.form = "false" => fs = fs0

\* 'auto' (also by default) creates no directory and writes only the config
\* file of an IDE whose directory existed
C21_AutoOnlyExisting ==
  options.updateConfig.form \in {"undefined", "auto"} =>
    /\ fs.dirs = fs0.dirs
    /\ \A p \in C21_Changed : \E i \in fs0.dirs : p = ConfigFile(i)

\* C21: with updateConfig false no IDE configuration file or directory is
\* created or modified; with 'auto', the default, a configuration file is
\* written only for the IDEs whose directory already exists and no other
\* IDE's file or directory is touched.
C21_UpdateConfigFrame == C21_FalseTouchesNothing /\ C21_AutoOnlyExisting

\* 'auto' has written the file of an IDE whose directory exists and has left
\* an IDE without directory alone
C21_Witness ==
  /\ cpc = "done"
  /\ options.updateConfig.form = "auto"
  /\ \E i \in fs0.dirs : ConfigFile(i) \in C21_Changed
  /\ \E i \in Ides \ fs0.dirs : fs.files[ConfigFile(i)] = Absent /\ i \notin fs.dirs

\* ------------------------------------------------------------------ C22
\* the types updateConfig names, as a single value or inside an array
C22_Named ==
  IF options.updateConfig.form \in {"single", "array"}
  THEN options.updateConfig.of ELSE {}

\* the file holds the server's SSE URL under the configured name
C22_HasEntry(path, ide) ==
  LET content == fs.files[path]
  IN /\ content.kind = "json"
     /\ content.hasServers
     /\ ServerName(options) \in DOMAIN content.servers
     /\ content.servers[ServerName(options)] = ServerEntry(ide, sseUrl)

\* a type given as a single value is updated like one given in an array
C22_SingleValueUpdated ==
  (cpc = "done" /\ options.updateConfig.form = "single" /\ failedIdes = {}) =>
    \A i \in C22_Named : C22_HasEntry(ConfigFile(i), i)

\* the file documented for a type named in an array is updated
C22_DocumentedFileUpdated ==
  (cpc = "done" /\ options.updateConfig.form = "array" /\ failedIdes = {}) =>
    \A i \in C22_Named : C22_HasEntry(DocumentedFile(i), i)

\* C22: when updateConfig names a config type, as a single value or inside
\* an array, and no step failed, the file documented for that type holds the
\* server's SSE URL under the configured server name once configureServer
\* has finished: .cursor/mcp.json, .vscode/settings.json,
\* ~/.codeium/windsurf/mcp_config.json.
C22_NamedTypeUpdated == C22_SingleValueUpdated /\ C22_DocumentedFileUpdated

\* ------------------------------------------------------------------ C24
\* the mount root: mcpRouteRoot, else the deprecated mcpPath, else /__mcp
C24_MountRoot ==
  routeRoot = IF options.mcpRouteRoot # Undef THEN options.mcpRouteRoot
              ELSE IF options.mcpPath # Undef THEN options.mcpPath
              ELSE "/__mcp"

\* the URL points at the stream endpoint under the root the routes were
\* installed with, on the given host and port or on localhost and the dev
\* server's port
C24_UrlOfRoutes ==
  /\ sseUrl.path = MountedSse(routeRoot)
  /\ sseUrl.host = IF options.host = Undef THEN "localhost" ELSE options.host
  /\ sseUrl.port = IF options.port = 0 THEN 5173 ELSE options.port

\* what is printed, and what is written under the server's name, is that URL
C24_PrintedAndWritten ==
  /\ printed \subseteq {sseUrl}
  /\ \A i \in Ides \ failedIdes :
       fs.files[ConfigFile(i)] # fs0.files[ConfigFile(i)] =>
         fs.files[ConfigFile(i)].servers[ServerName(options)].url = sseUrl

\* C24: the stream endpoint is mounted at <mount root>/sse, the mount root
\* being mcpRouteRoot, else the deprecated mcpPath, else /__mcp; the URL
\* that is printed and written into the IDE config files uses the mount
\* root the routes were installed under, with host localhost and the dev
\* server's port by default.
C24_UrlMatchesRoutes ==
  cpc # "configure" => C24_MountRoot /\ C24_UrlOfRoutes /\ C24_PrintedAndWritten

\* the deprecated mcpPath alone set: routes, printed URL and a written entry
\* all carry it
C24_Witness ==
  /\ cpc = "done"
  /\ options.mcpRouteRoot = Undef /\ options.mcpPath = "/old"
  /\ options.host = Undef /\ options.port = 0
  /\ routeRoot = "/old"
  /\ printed = {Url("localhost", 5173, "/old")}
  /\ \E i \in Ides : C22_HasEntry(ConfigFile(i), i)

\* ------------------------------------------------------------------ C26
\* the names an update may change: the server's and the additional servers'
C26_OwnNames ==
  {ServerName(options)} \cup {options.extra[k].name : k \in DOMAIN options.extra}

\* a written file keeps the other top-level keys and the other server
\* entries of the file it replaces
C26_Preserved(i) ==
  LET old == fs0.files[ConfigFile(i)]
      new == fs.files[ConfigFile(i)]
  IN (new # old /\ old.kind = "json") =>
       /\ new.top = old.top
       /\ \A n \in DOMAIN old.servers \ C26_OwnNames :
            n \in DOMAIN new.servers /\ new.servers[n] = old.servers[n]

\* updating the written file again with the same options changes nothing
C26_Idempotent(i) ==
  LET new == fs.files[ConfigFile(i)]
  IN new # fs0.files[ConfigFile(i)] => Updated(new, i, options, sseUrl) = new

\* C26: an update changes only the entries keyed by the configured server
\* name and by the additional servers' names; every other server entry and
\* every other top-level key of the file is preserved, and updating twice
\* with the same options leaves the file as updating once does.
C26_OnlyOwnEntriesChanged ==
  cpc # "configure" => \A i \in Ides : C26_Preserved(i) /\ C26_Idempotent(i)

\* ------------------------------------------------------------------ C27
\* configureServer does not reject once the routes are installed
C27_ConfigureServerSucceeds == cpc # "failed"

\* when updateConfigs is over, every selected IDE whose own block did not
\* fail has its file updated
C27_OthersUpdated ==
  cpc \in {"done", "failed"} =>
    \A i \in configs \ failedIdes : C22_HasEntry(ConfigFile(i), i)

\* C27: a failure while updating one IDE's config file (unreadable file,
\* malformed JSON, failed write) is contained: the remaining selected IDEs'
\* files are still updated and configureServer does not fail after the MCP
\* routes have been installed.
C27_FailureContained == C27_ConfigureServerSucceeds /\ C27_OthersUpdated

\* ===================================================== capability gating
\* The handler groups of the Nuxt module, called in the order of
\* mcpServerSetup or of the integration test.
SequenceOf(c) ==
  CASE c = "module" ->
         << "promptNuxtBasic", "toolsNuxtRuntime", "toolsScaffold",
            "promptNuxtUI", "promptNuxtAuth", "promptDatabase", "promptFullstack",
            "promptDesignExpert", "promptAccessibilityExpert",
            "toolsNuxtUI", "toolsNuxtAuth", "toolsDatabase",
            "toolsUIUXDesign", "toolsAccessibility", "toolsDesignSystem" >>
    [] c = "testIntegration" ->
         << "toolsNuxtUI", "toolsNuxtAuth", "toolsDatabase",
            "toolsUIUXDesign", "toolsAccessibility", "toolsDesignSystem",
            "promptNuxtUI", "promptNuxtAuth", "promptDatabase", "promptFullstack",
            "promptDesignExpert", "promptAccessibilityExpert" >>
    [] OTHER ->
         << "toolsNuxtUI", "toolsNuxtAuth", "toolsDatabase",
            "toolsUIUXDesign", "toolsAccessibility", "toolsDesignSystem" >>

\* the flags each caller can pass: the module detects the three installed
\* modules and always sets hasUIUXNeeds; the tests pass all true or all false
ModulesOf(c) ==
  CASE c = "module" ->
         {[hasNuxtUI |-> ui, hasNuxtAuth |-> auth, hasDrizzle |-> db,
           hasUIUXNeeds |-> TRUE] : ui \in BOOLEAN, auth \in BOOLEAN, db \in BOOLEAN}
    [] c = "testIntegration" ->
         {[hasNuxtUI |-> TRUE, hasNuxtAuth |-> TRUE, hasDrizzle |-> TRUE,
           hasUIUXNeeds |-> TRUE]}
    [] OTHER -> {NoModules}

\* the names each group registers
NamesOf(g) ==
  CASE g = "promptNuxtBasic" -> {"nuxt-basic"}
    [] g = "toolsNuxtRuntime" ->
         {"get-nuxt-config", "list-nuxt-auto-imports-items", "list-nuxt-components",
          "list-nuxt-pages", "list-nuxt-hooks"}
    [] g = "toolsScaffold" -> {"nuxt-scaffold"}
    [] g = "promptNuxtUI" -> {"nuxt-ui-patterns"}
    [] g = "promptNuxtAuth" -> {"nuxt-auth-complete"}
    [] g = "promptDatabase" -> {"drizzle-patterns"}
    [] g = "promptFullstack" -> {"fullstack-patterns"}
    [] g = "promptDesignExpert" ->
         {"design-expert", "landing-page-expert", "dashboard-ux-expert"}
    [] g = "promptAccessibilityExpert" -> {"accessibility-expert"}
    [] g = "toolsNuxtUI" ->
         {"list-nuxt-ui-components", "get-nuxt-ui-theme", "nuxt-ui-scaffold",
          "get-nuxt-ui-colors"}
    [] g = "toolsNuxtAuth" ->
         {"get-auth-config", "get-auth-session", "list-auth-providers",
          "scaffold-auth-pages", "generate-auth-middleware", "generate-auth-api"}
    [] g = "toolsDatabase" ->
         {"get-database-schema", "list-database-tables", "generate-drizzle-query",
          "scaffold-database-api", "generate-database-migration",
          "get-database-connection"}
    [] g = "toolsUIUXDesign" ->
         {"analyze-ui-hierarchy", "generate-landing-page-structure",
          "design-dashboard-layout", "generate-color-palette", "evaluate-user-flow",
          "create-responsive-breakpoints"}
    [] g = "toolsAccessibility" ->
         {"audit-accessibility-wcag", "check-color-contrast", "generate-aria-labels",
          "create-keyboard-navigation", "optimize-screen-reader",
          "validate-accessibility-patterns"}
    [] OTHER ->
         {"create-design-system", "generate-design-tokens", "build-component-library",
          "audit-design-consistency", "optimize-design-performance",
          "setup-design-governance"}

GatingInit ==
  /\ NoSessions
  /\ ServingStandalone
  /\ ConfigIdle
  /\ caller \in {"module", "testIntegration", "testWithoutModules"}
  /\ modules \in ModulesOf(caller)
  /\ gpc = 1
  /\ registered = {}
  /\ ReleaseIdle
  /\ InterceptIdle
  /\ HooksIdle

\* the caller's next statement is the call of group g: `if (skip) return`,
\* else its mcp.tool / mcp.prompt calls
GroupCall(g, skip) ==
  /\ gpc \in DOMAIN SequenceOf(caller)
  /\ SequenceOf(caller)[gpc] = g
  /\ registered' = IF skip THEN registered ELSE registered \cup NamesOf(g)
  /\ gpc' = gpc + 1
  /\ UNCHANGED <<caller, modules>>
  /\ UNCHANGED <<vars, pvars, cvars, rvars, ivars, hvars>>

promptNuxtBasic == GroupCall("promptNuxtBasic", FALSE)
toolsNuxtRuntime == GroupCall("toolsNuxtRuntime", FALSE)
toolsScaffold == GroupCall("toolsScaffold", FALSE)
promptNuxtUI == GroupCall("promptNuxtUI", ~modules.hasNuxtUI)
promptNuxtAuth == GroupCall("promptNuxtAuth", ~modules.hasNuxtAuth)
promptDatabase == GroupCall("promptDatabase", ~modules.hasDrizzle)
\* a guard that lets the prompt through when any one of the flags is set
promptFullstackAny ==
  GroupCall("promptFullstack",
            ~modules.hasNuxtUI /\ ~modules.hasNuxtAuth /\ ~modules.hasDrizzle)
promptFullstack ==
  GroupCall("promptFullstack",
            ~modules.hasNuxtUI \/ ~modules.hasNuxtAuth \/ ~modules.hasDrizzle)
promptDesignExpert == GroupCall("promptDesignExpert", ~modules.hasUIUXNeeds)
promptAccessibilityExpert == GroupCall("promptAccessibilityExpert", ~modules.hasUIUXNeeds)
toolsNuxtUI == GroupCall("toolsNuxtUI", ~modules.hasNuxtUI)
toolsNuxtAuth == GroupCall("toolsNuxtAuth", ~modules.hasNuxtAuth)
toolsDatabase == GroupCall("toolsDatabase", ~modules.hasDrizzle)
toolsUIUXDesign == GroupCall("toolsUIUXDesign", ~modules.hasUIUXNeeds)
toolsAccessibility == GroupCall("toolsAccessibility", ~modules.hasUIUXNeeds)
toolsDesignSystem == GroupCall("toolsDesignSystem", ~modules.hasUIUXNeeds)

GatingNext ==
  \/ promptNuxtBasic
  \/ toolsNuxtRuntime
  \/ toolsScaffold
  \/ promptNuxtUI
  \/ promptNuxtAuth
  \/ promptDatabase
  \/ promptFullstack
  \/ promptDesignExpert
  \/ promptAccessibilityExpert
  \/ toolsNuxtUI
  \/ toolsNuxtAuth
  \/ toolsDatabase
  \/ toolsUIUXDesign
  \/ toolsAccessibility
  \/ toolsDesignSystem

GatingSpec == GatingInit /\ [][GatingNext]_gvars

\* ------------------------------------------------------------------ C23
\* the optional groups and the capability each one needs
C23_Gated ==
  {"promptNuxtUI", "promptNuxtAuth", "promptDatabase", "promptFullstack",
   "promptDesignExpert", "promptAccessibilityExpert", "toolsNuxtUI",
   "toolsNuxtAuth", "toolsDatabase", "toolsUIUXDesign", "toolsAccessibility",
   "toolsDesignSystem"}

C23_Capable(g) ==
  CASE g \in {"promptNuxtUI", "toolsNuxtUI"} -> modules.hasNuxtUI
    [] g \in {"promptNuxtAuth", "toolsNuxtAuth"} -> modules.hasNuxtAuth
    [] g \in {"promptDatabase", "toolsDatabase"} -> modules.hasDrizzle
    [] g = "promptFullstack" ->
         modules.hasNuxtUI /\ modules.hasNuxtAuth /\ modules.hasDrizzle
    [] OTHER -> modules.hasUIUXNeeds

\* the groups the caller has called so far
C23_Called == {SequenceOf(caller)[k] : k \in 1..(gpc - 1)}

\* a called group has registered all its handlers if its capability is set
\* and none of them if not
C23_IffCapable ==
  \A g \in C23_Gated \cap C23_Called :
    /\ C23_Capable(g) => NamesOf(g) \subseteq registered
    /\ ~C23_Capable(g) => NamesOf(g) \cap registered = {}

\* with all flags false the gated groups register nothing
C23_AllFalseRegistersNothing ==
  modules = NoModules => \A g \in C23_Gated : NamesOf(g) \cap registered = {}

\* C23: each optional tool or prompt group registers its handlers on the MCP
\* server if and only if its capability flag in context.modules is true;
\* called with all flags false the gated groups register nothing; the
\* 'fullstack-patterns' prompt is registered only when the Nuxt UI, Auth and
\* Drizzle flags are all true.
C23_CapabilityGating ==
  /\ C23_IffCapable
  /\ C23_AllFalseRegistersNothing
  /\ "fullstack-patterns" \in registered =>
       modules.hasNuxtUI /\ modules.hasNuxtAuth /\ modules.hasDrizzle

\* the module's set-up is through with Nuxt UI and Drizzle installed and the
\* auth module missing: their groups are registered, auth's and the
\* fullstack prompt are not
C23_Witness ==
  /\ caller = "module"
  /\ gpc = Len(SequenceOf("module")) + 1
  /\ modules.hasNuxtUI /\ ~modules.hasNuxtAuth /\ modules.hasDrizzle
  /\ "nuxt-ui-patterns" \in registered
  /\ "get-database-schema" \in registered
  /\ "get-auth-config" \notin registered
  /\ "fullstack-patterns" \notin registered

\* ==================================================== scripts/release.sh
MaxVersionLen == 7

\* the version arguments: strings of a digit, the dot, the hyphen and a letter
Versions == UNION {[1..n -> {"1", ".", "-", "a"}] : n \in 0..MaxVersionLen}

AllIn(s, from, to, set) == \A k \in from..to : s[k] \in set

\* ^[0-9]+\.[0-9]+\.[0-9]+(-[a-zA-Z0-9-]+(\.[a-zA-Z0-9-]+)*)?$
IsSemver(s) ==
  LET \* -[a-zA-Z0-9-]+(\.[a-zA-Z0-9-]+)* on s[from..Len(s)]
      IsPrerelease(from) ==
        /\ from < Len(s)
        /\ s[from] = "-"
        /\ AllIn(s, from + 1, Len(s), {"1", "a", "-", "."})
        /\ s[from + 1] # "."
        /\ s[Len(s)] # "."
        /\ \A k \in (from + 1)..(Len(s) - 1) : ~(s[k] = "." /\ s[k + 1] = ".")
  IN \E i, j, k \in 1..Len(s) :
       /\ 1 < i /\ i + 1 < j /\ j < k
       /\ AllIn(s, 1, i - 1, {"1"})
       /\ s[i] = "."
       /\ AllIn(s, i + 1, j - 1, {"1"})
       /\ s[j] = "."
       /\ AllIn(s, j + 1, k, {"1"})
       /\ (k = Len(s) \/ IsPrerelease(k + 1))

ReleaseInit ==
  /\ NoSessions
  /\ ServingStandalone
  /\ ConfigIdle
  /\ GatingIdle
  /\ version \in Versions
  /\ onMain \in BOOLEAN
  /\ rpc = "args"
  /\ cwd = "root"
  /\ passed = {}
  /\ bumped = {}
  /\ committed = FALSE
  /\ tagged = FALSE
  /\ pushed = {}
  /\ exitCode = -1
  /\ InterceptIdle
  /\ HooksIdle

\* exit <code>, or a command failing under set -e
Exit(code) ==
  /\ exitCode' = code
  /\ UNCHANGED <<version, onMain, rpc, cwd, passed, bumped, committed, tagged, pushed>>
  /\ UNCHANGED <<vars, pvars, cvars, gvars, ivars, hvars>>

\* an `if ! <check>; then exit 1; fi` step
Check(step, next, ok) ==
  /\ exitCode = -1 /\ rpc = step
  /\ IF ok
     THEN /\ rpc' = next
          /\ passed' = passed \cup {step}
          /\ UNCHANGED <<version, onMain, cwd, bumped, committed, tagged, pushed, exitCode>>
          /\ UNCHANGED <<vars, pvars, cvars, gvars, ivars, hvars>>
     ELSE Exit(1)

\* if [ -z "$1" ]
CheckArgs ==
  /\ exitCode = -1 /\ rpc = "args"
  /\ IF version = << >>
     THEN Exit(1)
     ELSE /\ rpc' = "semver"
          /\ UNCHANGED <<version, onMain, cwd, passed, bumped, committed, tagged, pushed, exitCode>>
          /\ UNCHANGED <<vars, pvars, cvars, gvars, ivars, hvars>>

CheckSemver == Check("semver", "branch", IsSemver(version))

\* off main the script asks; anything but y or Y cancels with status 0
CheckBranch(reply) ==
  /\ exitCode = -1 /\ rpc = "branch"
  /\ IF onMain \/ reply \in {"y", "Y"}
     THEN /\ rpc' = "clean"
          /\ passed' = passed \cup {"branch"}
          /\ UNCHANGED <<version, onMain, cwd, bumped, committed, tagged, pushed, exitCode>>
          /\ UNCHANGED <<vars, pvars, cvars, gvars, ivars, hvars>>
     ELSE Exit(0)

CheckClean(clean) == Check("clean", "tagcheck", clean)
CheckTag(free) == Check("tagcheck", "pull", free)

\* git pull origin main, under set -e
Pull(ok) ==
  /\ exitCode = -1 /\ rpc = "pull"
  /\ IF ok
     THEN /\ rpc' = "test"
          /\ UNCHANGED <<version, onMain, cwd, passed, bumped, committed, tagged, pushed, exitCode>>
          /\ UNCHANGED <<vars, pvars, cvars, gvars, ivars, hvars>>
     ELSE Exit(1)

Test(ok) == Check("test", "integration", ok)
Integration(ok) == Check("integration", "lint", ok)
Lint(ok) == Check("lint", "typecheck", ok)
Typecheck(ok) == Check("typecheck", "build", ok)
\* a build step whose failure is ignored
BuildUnchecked(ok) ==
  /\ exitCode = -1 /\ rpc = "build"
  /\ rpc' = "bumpRoot"
  /\ passed' = IF ok THEN passed \cup {"build"} ELSE passed
  /\ UNCHANGED <<version, onMain, cwd, bumped, committed, tagged, pushed, exitCode>>
  /\ UNCHANGED <<vars, pvars, cvars, gvars, ivars, hvars>>
Build(ok) == Check("build", "bumpRoot", ok)

\* npm version "$VERSION" --no-git-tag-version
BumpRoot(ok) ==
  /\ exitCode = -1 /\ rpc = "bumpRoot"
  /\ IF ok
     THEN /\ rpc' = "bumpNuxt"
          /\ bumped' = bumped \cup {"root"}
          /\ UNCHANGED <<version, onMain, cwd, passed, committed, tagged, pushed, exitCode>>
          /\ UNCHANGED <<vars, pvars, cvars, gvars, ivars, hvars>>
     ELSE Exit(1)

\* cd <dir> && npm version ... && cd ../..: set -e does not act on a failure
\* inside the list, and a failing npm leaves the script in <dir>
BumpIn(step, next, dir, cdOk, ok) ==
  /\ exitCode = -1 /\ rpc = step
  /\ rpc' = next
  /\ IF cwd = "root" /\ cdOk
     THEN IF ok
          THEN bumped' = bumped \cup {dir} /\ cwd' = cwd
          ELSE bumped' = bumped /\ cwd' = dir
     ELSE bumped' = bumped /\ cwd' = cwd
  /\ UNCHANGED <<version, onMain, passed, committed, tagged, pushed, exitCode>>
  /\ UNCHANGED <<vars, pvars, cvars, gvars, ivars, hvars>>

BumpNuxt(cdOk, ok) == BumpIn("bumpNuxt", "bumpVite", "packages/nuxt-mcp", cdOk, ok)
BumpVite(cdOk, ok) == BumpIn("bumpVite", "changelog", "packages/vite-plugin-mcp", cdOk, ok)

\* if [ -f CHANGELOG.md ]; then sed ...; rm ...; else warn; fi
Changelog(present, ok) ==
  /\ exitCode = -1 /\ rpc = "changelog"
  /\ IF present /\ ~ok
     THEN Exit(1)
     ELSE /\ rpc' = "commit"
          /\ UNCHANGED <<version, onMain, cwd, passed, bumped, committed, tagged, pushed, exitCode>>
          /\ UNCHANGED <<vars, pvars, cvars, gvars, ivars, hvars>>

\* git add . ; git commit
Commit(ok) ==
  /\ exitCode = -1 /\ rpc = "commit"
  /\ IF ok
     THEN /\ rpc' = "tag"
          /\ committed' = TRUE
          /\ UNCHANGED <<version, onMain, cwd, passed, bumped, tagged, pushed, exitCode>>
          /\ UNCHANGED <<vars, pvars, cvars, gvars, ivars, hvars>>
     ELSE Exit(1)

\* git tag -a "$TAG"
Tag(ok) ==
  /\ exitCode = -1 /\ rpc = "tag"
  /\ IF ok
     THEN /\ rpc' = "pushMain"
          /\ tagged' = TRUE
          /\ UNCHANGED <<version, onMain, cwd, passed, bumped, committed, pushed, exitCode>>
          /\ UNCHANGED <<vars, pvars, cvars, gvars, ivars, hvars>>
     ELSE Exit(1)

\* git push origin main ; git push origin "$TAG"
Push(step, next, what, ok) ==
  /\ exitCode = -1 /\ rpc = step
  /\ IF ok
     THEN /\ rpc' = next
          /\ pushed' = pushed \cup {what}
          /\ UNCHANGED <<version, onMain, cwd, passed, bumped, committed, tagged, exitCode>>
          /\ UNCHANGED <<vars, pvars, cvars, gvars, ivars, hvars>>
     ELSE Exit(1)

PushMain(ok) == Push("pushMain", "pushTag", "main", ok)
PushTag(ok) == Push("pushTag", "docker", "tag", ok)

\* docker build, then the end of the script
Docker(ok) ==
  /\ exitCode = -1 /\ rpc = "docker"
  /\ Exit(IF ok THEN 0 ELSE 1)

ReleaseNext ==
  \/ CheckArgs
  \/ CheckSemver
  \/ \E reply \in {"y", "Y", "n", ""} : CheckBranch(reply)
  \/ \E clean \in BOOLEAN : CheckClean(clean)
  \/ \E free \in BOOLEAN : CheckTag(free)
  \/ \E ok \in BOOLEAN : Pull(ok)
  \/ \E ok \in BOOLEAN : Test(ok)
  \/ \E ok \in BOOLEAN : Integration(ok)
  \/ \E ok \in BOOLEAN : Lint(ok)
  \/ \E ok \in BOOLEAN : Typecheck(ok)
  \/ \E ok \in BOOLEAN : Build(ok)
  \/ \E ok \in BOOLEAN : BumpRoot(ok)
  \/ \E cdOk, ok \in BOOLEAN : BumpNuxt(cdOk, ok)
  \/ \E cdOk, ok \in BOOLEAN : BumpVite(cdOk, ok)
  \/ \E present, ok \in BOOLEAN : Changelog(present, ok)
  \/ \E ok \in BOOLEAN : Commit(ok)
  \/ \E ok \in BOOLEAN : Tag(ok)
  \/ \E ok \in BOOLEAN : PushMain(ok)
  \/ \E ok \in BOOLEAN : PushTag(ok)
  \/ \E ok \in BOOLEAN : Docker(ok)

ReleaseSpec == ReleaseInit /\ [][ReleaseNext]_rvars

\* ------------------------------------------------------------------ C25
\* the checks that come before a release
C25_Checks ==
  {"semver", "branch", "clean", "tagcheck", "test", "integration", "lint",
   "typecheck", "build"}

\* something of the release exists: a bumped version, the commit, the tag or
\* a push
C25_Released ==
  bumped # {} \/ committed \/ tagged \/ pushed # {}

\* the version given to a release is a semantic version
C25_VersionChecked == C25_Released => IsSemver(version)

\* the script stopped at one of the checks
C25_StoppedAtCheck == exitCode # -1 /\ rpc \in C25_Checks \cup {"args"}

\* C25: the version bump, the release commit and the tag are created and
\* pushed only after the semantic-version check, the git status and branch
\* checks, the tag check and the whole test suite (tests, integration tests,
\* lint, type check, build) have succeeded; if one of them fails the script
\* stops and nothing is committed, tagged or pushed.
C25_ValidatesBeforeRelease ==
  /\ C25_Released => C25_Checks \subseteq passed
  /\ C25_VersionChecked
  /\ C25_StoppedAtCheck => ~C25_Released

\* a whole release of a prerelease version from a branch other than main
C25_Witness ==
  /\ exitCode = 0 /\ rpc = "docker"
  /\ ~onMain
  /\ Len(version) = 7 /\ version[6] = "-"
  /\ committed /\ tagged /\ pushed = {"main", "tag"}
  /\ bumped = {"root", "packages/nuxt-mcp", "packages/vite-plugin-mcp"}

\* ======================================================= interceptStdout
\* Concurrent invocations of interceptStdout: each one saves the current
\* writers, installs its wrappers, awaits fn and restores what it saved.
MaxInvocations == 2

Invocations == 1..MaxInvocations
Streams == {"stdout", "stderr"}

InterceptInit ==
  /\ NoSessions
  /\ ServingStandalone
  /\ ConfigIdle
  /\ GatingIdle
  /\ ReleaseIdle
  /\ write = [s \in Streams |-> 0]
  /\ oldWrite = [i \in Invocations |-> [s \in Streams |-> 0]]
  /\ ipc = [i \in Invocations |-> "idle"]
  /\ captured = [i \in Invocations |-> [s \in Streams |-> {}]]
  /\ intercepted = [i \in Invocations |-> [s \in Streams |-> {}]]
  /\ HooksIdle

\* the invocations whose fn is awaited
Active == {i \in Invocations : ipc[i] = "running"}

\* lines 82-96: save the writers, install the wrappers, call fn
Start(i) ==
  /\ ipc[i] = "idle"
  /\ oldWrite' = [oldWrite EXCEPT ![i] = write]
  /\ write' = [s \in Streams |-> i]
  /\ ipc' = [ipc EXCEPT ![i] = "running"]
  /\ UNCHANGED <<captured, intercepted>>
  /\ UNCHANGED <<vars, pvars, cvars, gvars, rvars, hvars>>

RECURSIVE Chain(_, _)
\* the wrappers a chunk passes through when it is given to writer w: a
\* wrapper pushes the chunk and calls the writer it saved
Chain(w, s) ==
  IF w = 0 THEN {} ELSE {w} \cup Chain(oldWrite[w][s], s)

\* process.stdout.write(chunk) or process.stderr.write(chunk) by the fn of a
\* running invocation or by other code; a wrapper records the chunk with
\* its author and whether the wrapper's invocation was running
Write(author, s) ==
  /\ author \in Active \cup {0}
  /\ captured' = [i \in Invocations |->
                    IF i \in Chain(write[s], s)
                    THEN [captured[i] EXCEPT
                            ![s] = @ \cup {[by |-> author, during |-> i \in Active]}]
                    ELSE captured[i]]
  /\ UNCHANGED <<write, oldWrite, ipc, intercepted>>
  /\ UNCHANGED <<vars, pvars, cvars, gvars, rvars, hvars>>

\* lines 96-106: fn settles; the result carries the captured chunks when it
\* returned; finally puts the saved writers back
Finish(i, thrown) ==
  /\ ipc[i] = "running"
  /\ write' = oldWrite[i]
  /\ ipc' = [ipc EXCEPT ![i] = "done"]
  /\ intercepted' = IF thrown THEN intercepted
                    ELSE [intercepted EXCEPT ![i] = captured[i]]
  /\ UNCHANGED <<oldWrite, captured>>
  /\ UNCHANGED <<vars, pvars, cvars, gvars, rvars, hvars>>

InterceptNext ==
  \/ \E i \in Invocations : Start(i)
  \/ \E a \in Invocations \cup {0}, s \in Streams : Write(a, s)
  \/ \E i \in Invocations, thrown \in BOOLEAN : Finish(i, thrown)

InterceptSpec == InterceptInit /\ [][InterceptNext]_ivars

\* ------------------------------------------------------------------ C28
\* once no invocation is running, both writers are the original functions
C28_Restored ==
  Active = {} => \A s \in Streams : write[s] = 0

\* what an invocation returned was written while it was running
C28_CapturedDuring ==
  \A i \in Invocations, s \in Streams :
    \A chunk \in intercepted[i][s] : chunk.during

\* C28: the interception is always undone: once every invocation of
\* interceptStdout has finished (returned or thrown), under any interleaving
\* of concurrent invocations, process.stdout.write and process.stderr.write
\* are the original functions again, and the output an invocation captured
\* contains only what was written during that invocation.
C28_InterceptionUndone == C28_Restored /\ C28_CapturedDuring

\* ================================================ hooks and runtime tools
\* The two set-ups of the Nuxt module.  "byValue": module.ts keeps unimport
\* and components in variables its listeners assign and hands their values
\* to registerNuxtRuntimeTools.  "context": the set-up keeps unimport behind
\* promiseWithResolve, and toolsNuxtRuntime installs the 'components:extend'
\* and 'pages:extend' listeners itself.  A hook's value is the number of the
\* firing; 0 is the initial [] or undefined.
MaxFirings == 2
MaxRequests == 2


HooksInit ==
  /\ NoSessions
  /\ ServingStandalone
  /\ ConfigIdle
  /\ GatingIdle
  /\ ReleaseIdle
  /\ InterceptIdle
  /\ variant \in {"byValue", "context"}
  /\ toolsReady = FALSE
  /\ components = 0
  /\ pages = 0
  /\ unimport = 0
  /\ toolComponents = 0
  /\ toolUnimport = 0
  /\ delivered = [h \in {"components:extend", "pages:extend", "imports:context"} |-> 0]
  /\ firstContext = 0
  /\ sinceReady = {}
  /\ waiting = {}
  /\ nextRequest = 1
  /\ replies = {}

\* a firing of hook h: what every firing does
Fired(h) ==
  /\ delivered[h] < MaxFirings
  /\ delivered' = [delivered EXCEPT ![h] = @ + 1]
  /\ sinceReady' = IF toolsReady THEN sinceReady \cup {h} ELSE sinceReady
  /\ UNCHANGED <<variant, toolsReady, toolComponents, toolUnimport, waiting,
                 nextRequest, replies>>
  /\ UNCHANGED <<vars, pvars, cvars, gvars, rvars, ivars>>

\* 'components:extend': module.ts listens from set-up on, toolsNuxtRuntime
\* from the registration of the tools on
ComponentsExtend ==
  /\ Fired("components:extend")
  /\ components' = IF variant = "byValue" \/ toolsReady
                   THEN delivered["components:extend"] + 1 ELSE components
  /\ UNCHANGED <<pages, unimport, firstContext>>

\* 'pages:extend': only toolsNuxtRuntime listens
PagesExtend ==
  /\ Fired("pages:extend")
  /\ pages' = IF variant = "context" /\ toolsReady
              THEN delivered["pages:extend"] + 1 ELSE pages
  /\ UNCHANGED <<components, unimport, firstContext>>

\* a listener that settles the promise anew at every firing
ImportsContextLatest ==
  /\ Fired("imports:context")
  /\ unimport' = delivered["imports:context"] + 1
  /\ firstContext' = IF firstContext = 0 THEN delivered["imports:context"] + 1
                     ELSE firstContext
  /\ UNCHANGED <<components, pages>>

\* 'imports:context': module.ts assigns the variable; unimport.resolve
\* settles the promise the first time and does nothing afterwards
ImportsContext ==
  /\ Fired("imports:context")
  /\ unimport' = IF variant = "byValue" \/ unimport = 0
                 THEN delivered["imports:context"] + 1 ELSE unimport
  /\ firstContext' = IF firstContext = 0 THEN delivered["imports:context"] + 1
                     ELSE firstContext
  /\ UNCHANGED <<components, pages>>

\* mcpServerSetup: registerNuxtRuntimeTools(mcp, nuxt, unimport, components)
\* or toolsNuxtRuntime(context)
RegisterTools ==
  /\ ~toolsReady
  /\ toolsReady' = TRUE
  /\ toolComponents' = IF variant = "byValue" THEN components ELSE toolComponents
  /\ toolUnimport' = IF variant = "byValue" THEN unimport ELSE toolUnimport
  /\ UNCHANGED <<variant, components, pages, unimport, delivered, firstContext,
                 sinceReady, waiting, nextRequest>>
  /\ UNCHANGED <<replies>>
  /\ UNCHANGED <<vars, pvars, cvars, gvars, rvars, ivars>>

\* a response: the tool, the request, the value returned, the value of the
\* hook's latest firing, whether the hook has fired since the registration,
\* and whether the request had to wait
Reply(tool, id, value, hook, waited) ==
  [tool |-> tool, id |-> id, value |-> value, latest |-> delivered[hook],
   post |-> hook \in sinceReady, waited |-> waited]

\* a request answered at once with value
Answered(tool, value, hook) ==
  /\ toolsReady
  /\ nextRequest <= MaxRequests
  /\ nextRequest' = nextRequest + 1
  /\ replies' = replies \cup {Reply(tool, nextRequest, value, hook, FALSE)}
  /\ UNCHANGED <<variant, toolsReady, components, pages, unimport, toolComponents,
                 toolUnimport, delivered, firstContext, sinceReady, waiting>>
  /\ UNCHANGED <<vars, pvars, cvars, gvars, rvars, ivars>>

\* get-nuxt-components / list-nuxt-components
ListComponents ==
  Answered("components",
           IF variant = "byValue" THEN toolComponents ELSE components,
           "components:extend")

\* list-nuxt-pages
ListPages ==
  /\ variant = "context"
  /\ Answered("pages", pages, "pages:extend")

\* get-nuxt-auto-imports-items: unimport.getImports() on the value handed
\* over at registration; undefined throws
GetAutoImports ==
  /\ variant = "byValue"
  /\ Answered("imports", IF toolUnimport = 0 THEN -1 ELSE toolUnimport,
              "imports:context")

\* list-nuxt-auto-imports-items arrives: the handler awaits the promise
ListAutoImports ==
  /\ variant = "context"
  /\ toolsReady
  /\ nextRequest <= MaxRequests
  /\ nextRequest' = nextRequest + 1
  /\ waiting' = waiting \cup {[id |-> nextRequest, early |-> unimport = 0]}
  /\ UNCHANGED <<variant, toolsReady, components, pages, unimport, toolComponents,
                 toolUnimport, delivered, firstContext, sinceReady, replies>>
  /\ UNCHANGED <<vars, pvars, cvars, gvars, rvars, ivars>>

\* the promise is settled: the handler of a waiting request goes on and answers
Resumes ==
  \E w \in waiting :
    /\ unimport # 0
    /\ waiting' = waiting \ {w}
    /\ replies' = replies \cup {Reply("imports", w.id, unimport, "imports:context", w.early)}
    /\ UNCHANGED <<variant, toolsReady, components, pages, unimport, toolComponents,
                   toolUnimport, delivered, firstContext, sinceReady, nextRequest>>
    /\ UNCHANGED <<vars, pvars, cvars, gvars, rvars, ivars>>

HooksNext ==
  \/ ComponentsExtend
  \/ PagesExtend
  \/ ImportsContext
  \/ RegisterTools
  \/ ListComponents
  \/ ListPages
  \/ GetAutoImports
  \/ ListAutoImports
  \/ Resumes

HooksSpec == HooksInit /\ [][HooksNext]_hvars

\* the continuation of a settled promise is a microtask: it runs
HooksFairSpec == HooksSpec /\ WF_hvars(Resumes)

\* ------------------------------------------------------------------ C29
C29_Listings == {r \in replies : r.tool \in {"components", "pages"}}

\* a listing returns what the hook delivered last
C29_LatestReturned == \A r \in C29_Listings : r.value = r.latest

\* a firing after the registration shows in every later response
C29_LaterFiringReflected ==
  \A r \in C29_Listings : r.post => r.value = r.latest

\* C29: the component-listing and page-listing tools return the value most
\* recently delivered by 'components:extend' / 'pages:extend' when the
\* request is handled, not the value that existed when the tool was
\* registered; a hook firing after registration is reflected in every later
\* response.
C29_ListingsAreCurrent == C29_LatestReturned /\ C29_LaterFiringReflected

\* ------------------------------------------------------------------ C30
C30_ImportReplies == {r \in replies : r.tool = "imports"}

\* every answer carries the context of the first firing
C30_FromFirstContext ==
  \A r \in C30_ImportReplies : r.value = firstContext /\ r.value # 0

\* no request is answered before the hook has fired
C30_PendingUntilFired ==
  firstContext = 0 => C30_ImportReplies = {}

\* a request that waits is answered once the hook has fired
C30_AnsweredOnceFired ==
  \A id \in 1..MaxRequests :
    ((\E w \in waiting : w.id = id) /\ firstContext # 0)
      ~> (\E r \in C30_ImportReplies : r.id = id)

\* C30: with the set-up that keeps the auto-import context behind a
\* promise, a 'list-nuxt-auto-imports-items' request is answered from the
\* context delivered by 'imports:context' whether the hook fires before or
\* after the request arrives: a request that arrives first stays pending and
\* is answered once the hook fires, and the context of the first firing is
\* the one every request gets.
C30_AnsweredFromFirstContext ==
  /\ [](variant = "context" => C30_FromFirstContext /\ C30_PendingUntilFired)
  /\ C30_AnsweredOnceFired

\* a request that arrived before the hook fired and one that arrived after
\* it have both been answered with the first context, after a second firing
C30_Witness ==
  /\ variant = "context"
  /\ delivered["imports:context"] = 2
  /\ \E r \in C30_ImportReplies : r.waited /\ r.value = 1 /\ r.latest = 2
  /\ \E r \in C30_ImportReplies : ~r.waited /\ r.value = 1

====
